---------------------------- MODULE Spec2Model ----------------------------
(***************************************************************************)
(* The image gallery of roam-imager: the Extractor, the Discovery          *)
(* Pipeline (identifier scan, batched hydration), the Context Enricher,    *)
(* the Sorter and the Gallery View's handlers, as one state machine.       *)
(*                                                                         *)
(* Strings are sequences of one-character strings, so that trim, includes, *)
(* toLowerCase and the regular expression are computed, not assumed.       *)
(* An asynchronous function is cut at its awaits: one action per           *)
(* resumption.  processImageBatch collects into an array local to the      *)
(* call, and a context fetch writes only its own record, which no other    *)
(* handler reads before the progress callback serialises it; the model     *)
(* therefore resumes showImageGallery at `await processImageBatch` and     *)
(* enhanceImagesWithContext at `await Promise.all`.                        *)
(***************************************************************************)
EXTENDS Integers, Sequences, FiniteSets, TLC

(***************************************************************************)
(* Bounds of the model                                                     *)
(***************************************************************************)
MaxGalleries == 2
MaxUserActions == 2
MaxSnippets == 3
MaxSortLen == 3
MaxLightboxes == 2

(***************************************************************************)
(* Program constants                                                       *)
(***************************************************************************)
FirstBatchSize == 50
HydrationBatchSize == 50
EnrichBatchSize == 10
DefaultImagesPerRow == 6
DefaultImagesPerPage == 50
DefaultSortOrder == "newest"
RowOptions == {3, 4, 5, 6, 8, 10}
PageOptions == {20, 30, 50, 100, 200}
SortOptions == {"newest", "oldest", "page-alpha", "page-reverse"}
NullTime == 0 - 1
Denylisted == <<"m","m","b","i","z",".","q","p","i","c",".","c","n">>
DefaultAlt == <<"I","m","a","g","e">>
Untitled == <<"U","n","t","i","t","l","e","d">>

(***************************************************************************)
(* Strings                                                                 *)
(***************************************************************************)
Min(a, b) == IF a < b THEN a ELSE b

WhiteSpace == {" ", "\t", "\n"}

UpperCase == <<"A","B","C","D","E","F","G","H","I","J","K","L","M",
               "N","O","P","Q","R","S","T","U","V","W","X","Y","Z">>
LowerCase == <<"a","b","c","d","e","f","g","h","i","j","k","l","m",
               "n","o","p","q","r","s","t","u","v","w","x","y","z">>

Letters == {UpperCase[i] : i \in 1..26} \cup {LowerCase[i] : i \in 1..26}

\* the position of a letter in the alphabet, whatever its case
LetterIndex ==
    [c \in Letters |-> CHOOSE i \in 1..26 : UpperCase[i] = c \/ LowerCase[i] = c]

IsUpper(c) == c \in {UpperCase[i] : i \in 1..26}

LowerChar(c) == IF IsUpper(c) THEN LowerCase[LetterIndex[c]] ELSE c

ToLowerCase(s) == [i \in 1..Len(s) |-> LowerChar(s[i])]

\* String.prototype.trim
Trim(s) ==
    LET keep == {i \in 1..Len(s) : s[i] \notin WhiteSpace}
    IN  IF keep = {} THEN <<>>
        ELSE LET lo == CHOOSE i \in keep : \A j \in keep : i <= j
                 hi == CHOOSE i \in keep : \A j \in keep : j <= i
             IN  SubSeq(s, lo, hi)

\* String.prototype.includes
Includes(s, t) ==
    \E p \in 0..(Len(s) - Len(t)) : \A k \in 1..Len(t) : s[p + k] = t[k]

\* Array.prototype.join(' ') over an array of strings
RECURSIVE JoinSpace(_)
JoinSpace(strs) ==
    IF Len(strs) = 0 THEN <<>>
    ELSE IF Len(strs) = 1 THEN strs[1]
    ELSE strs[1] \o <<" ">> \o JoinSpace(Tail(strs))

\* String(n) of a non-negative integer: its decimal digits
Digits == <<"0", "1", "2", "3", "4", "5", "6", "7", "8", "9">>

RECURSIVE NumToString(_)
NumToString(n) ==
    IF n < 10 THEN <<Digits[n + 1]>>
    ELSE Append(NumToString(n \div 10), Digits[(n % 10) + 1])

DigitValue(c) == (CHOOSE d \in 1..10 : Digits[d] = c) - 1

IsDigit(c) == \E d \in 1..10 : Digits[d] = c

\* the value of the digits of s up to its first character that is no digit
RECURSIVE DigitsPrefixValue(_, _)
DigitsPrefixValue(s, acc) ==
    IF Len(s) = 0 \/ ~IsDigit(Head(s)) THEN acc
    ELSE DigitsPrefixValue(Tail(s), 10 * acc + DigitValue(Head(s)))

\* what stands for NaN
NaN == 0 - 2

\* the string without its leading white space
RECURSIVE TrimStart(_)
TrimStart(s) ==
    IF Len(s) > 0 /\ Head(s) \in WhiteSpace THEN TrimStart(Tail(s)) ELSE s

\* parseInt(s) of a string without sign: leading white space is skipped, the
\* digits up to the first other character are read, NaN when there are none
ParseInt(s) ==
    LET t == TrimStart(s)
    IN  IF Len(t) = 0 \/ ~IsDigit(Head(t)) THEN NaN
        ELSE DigitsPrefixValue(t, 0)

\* first index >= from at which s holds c, 0 when there is none
IndexOfFrom(s, c, from) ==
    LET hits == {i \in from..Len(s) : s[i] = c}
    IN  IF hits = {} THEN 0 ELSE CHOOSE i \in hits : \A j \in hits : i <= j

(***************************************************************************)
(* Image Extractor: the markdown image pattern, bang, bracketed alt with   *)
(* no closing bracket inside, parenthesised url of one or more characters  *)
(* with no closing parenthesis inside; global flag.                        *)
(***************************************************************************)
NoMatch == [found |-> FALSE, alt |-> <<>>, url |-> <<>>, last |-> 0]

\* a pattern that lets other characters stand between "]" and "("
MatchAt_LooseBrackets(s, p) ==
    IF ~(p + 1 <= Len(s) /\ s[p] = "!" /\ s[p + 1] = "[") THEN NoMatch
    ELSE LET q == IndexOfFrom(s, "]", p + 2)
             o == IF q = 0 THEN 0 ELSE IndexOfFrom(s, "(", q + 1)
         IN  IF o = 0 THEN NoMatch
             ELSE LET r == IndexOfFrom(s, ")", o + 1)
                  IN  IF r = 0 \/ r = o + 1 THEN NoMatch
                      ELSE [found |-> TRUE,
                            alt   |-> SubSeq(s, p + 2, q - 1),
                            url   |-> SubSeq(s, o + 1, r - 1),
                            last  |-> r]

\* One attempt of the pattern anchored at position p.
MatchAt(s, p) ==
    IF ~(p + 1 <= Len(s) /\ s[p] = "!" /\ s[p + 1] = "[") THEN NoMatch
    ELSE LET q == IndexOfFrom(s, "]", p + 2)
         IN  IF q = 0 \/ q + 1 > Len(s) \/ s[q + 1] # "(" THEN NoMatch
             ELSE LET r == IndexOfFrom(s, ")", q + 2)
                  IN  IF r = 0 \/ r = q + 2 THEN NoMatch
                      ELSE [found |-> TRUE,
                            alt   |-> SubSeq(s, p + 2, q - 1),
                            url   |-> SubSeq(s, q + 2, r - 1),
                            last  |-> r]

\* markdownRegex.exec in a loop: the engine tries the positions from
\* lastIndex on and matches at the first that succeeds.
RECURSIVE ExecAll(_, _)
ExecAll(s, from) ==
    LET starts == {p \in from..Len(s) : MatchAt(s, p).found}
    IN  IF starts = {} THEN <<>>
        ELSE LET m == MatchAt(s, CHOOSE p \in starts : \A q \in starts : p <= q)
             IN  <<m>> \o ExecAll(s, m.last + 1)

\* the denylist check left out
UrlAccepted_NoDenylist(url, trimmedUrl) == Len(url) > 0

\* if (url) { ... if (!trimmedUrl.includes('mmbiz.qpic.cn')) ... }
UrlAccepted(url, trimmedUrl) ==
    Len(url) > 0 /\ ~Includes(trimmedUrl, Denylisted)

MakeImage(uid, createTime, content, pageTitle, m) ==
    [uid               |-> uid,
     url               |-> Trim(m.url),
     alt               |-> IF Len(m.alt) > 0 THEN m.alt ELSE DefaultAlt,
     createTime        |-> IF createTime > 0 THEN createTime ELSE NullTime,
     pageTitle         |-> IF Len(pageTitle) > 0 THEN pageTitle ELSE Untitled,
     blockContent      |-> content,
     parentContent     |-> <<>>,
     childrenContent   |-> <<>>,
     siblingsContent   |-> <<>>,
     searchableContent |-> ToLowerCase(content \o <<" ">> \o pageTitle),
     contextLoaded     |-> FALSE]

RECURSIVE ImagesOfMatches(_, _, _, _, _)
ImagesOfMatches(uid, createTime, content, pageTitle, ms) ==
    IF Len(ms) = 0 THEN <<>>
    ELSE LET m == Head(ms)
             rest == ImagesOfMatches(uid, createTime, content, pageTitle, Tail(ms))
         IN  IF UrlAccepted(m.url, Trim(m.url))
             THEN <<MakeImage(uid, createTime, content, pageTitle, m)>> \o rest
             ELSE rest

\* The records of one block: the while loop over markdownRegex.exec.
ExtractImages(uid, createTime, content, pageTitle) ==
    ImagesOfMatches(uid, createTime, content, pageTitle, ExecAll(content, 1))

(***************************************************************************)
(* Sorter                                                                  *)
(***************************************************************************)
Sign(x) == IF x < 0 THEN 0 - 1 ELSE IF x > 0 THEN 1 ELSE 0

\* collation rank of a character: letters in alphabetical order whatever
\* their case, everything else before them
CharRank(c) == IF c \in Letters THEN LetterIndex[c] ELSE 0

RECURSIVE LexCompare(_, _)
LexCompare(x, y) ==
    IF Len(x) = 0 /\ Len(y) = 0 THEN 0
    ELSE IF Len(x) = 0 THEN 0 - 1
    ELSE IF Len(y) = 0 THEN 1
    ELSE IF Head(x) # Head(y) THEN Sign(Head(x) - Head(y))
    ELSE LexCompare(Tail(x), Tail(y))

\* String.prototype.localeCompare: letters first, case as the tie-break
\* (lower case before upper case)
LocaleCompare(a, b) ==
    LET primary == LexCompare([i \in 1..Len(a) |-> CharRank(a[i])],
                              [i \in 1..Len(b) |-> CharRank(b[i])])
    IN  IF primary # 0 THEN primary
        ELSE LexCompare([i \in 1..Len(a) |-> IF IsUpper(a[i]) THEN 1 ELSE 0],
                        [i \in 1..Len(b) |-> IF IsUpper(b[i]) THEN 1 ELSE 0])

NewestFirst(a, b) ==
    IF a.createTime = NullTime /\ b.createTime = NullTime THEN 0
    ELSE IF a.createTime = NullTime THEN 1
    ELSE IF b.createTime = NullTime THEN 0 - 1
    ELSE b.createTime - a.createTime

\* a comparator that subtracts the timestamps with null read as 0
OldestFirst_NullAsZero(a, b) ==
    (IF a.createTime = NullTime THEN 0 ELSE a.createTime)
    - (IF b.createTime = NullTime THEN 0 ELSE b.createTime)

OldestFirst(a, b) ==
    IF a.createTime = NullTime /\ b.createTime = NullTime THEN 0
    ELSE IF a.createTime = NullTime THEN 1
    ELSE IF b.createTime = NullTime THEN 0 - 1
    ELSE a.createTime - b.createTime

\* a switch whose 'page-reverse' case compares like 'page-alpha'
Comparator_ReverseAsAlpha(sortOrder, a, b) ==
    CASE sortOrder = "newest"       -> NewestFirst(a, b)
      [] sortOrder = "oldest"       -> OldestFirst(a, b)
      [] sortOrder = "page-alpha"   -> LocaleCompare(a.pageTitle, b.pageTitle)
      [] sortOrder = "page-reverse" -> LocaleCompare(a.pageTitle, b.pageTitle)
      [] OTHER                      -> NewestFirst(a, b)

\* the comparator the switch of sortImages selects
Comparator(sortOrder, a, b) ==
    CASE sortOrder = "newest"       -> NewestFirst(a, b)
      [] sortOrder = "oldest"       -> OldestFirst(a, b)
      [] sortOrder = "page-alpha"   -> LocaleCompare(a.pageTitle, b.pageTitle)
      [] sortOrder = "page-reverse" -> LocaleCompare(b.pageTitle, a.pageTitle)
      [] OTHER                      -> NewestFirst(a, b)

\* Array.prototype.sort is stable: of two elements that compare equal the
\* one that came first in the input stays first
RECURSIVE Merge(_, _, _)
Merge(a, b, sortOrder) ==
    IF Len(a) = 0 THEN b
    ELSE IF Len(b) = 0 THEN a
    ELSE IF Comparator(sortOrder, a[1], b[1]) <= 0
         THEN <<a[1]>> \o Merge(Tail(a), b, sortOrder)
         ELSE <<b[1]>> \o Merge(a, Tail(b), sortOrder)

\* const sorted = [...images]; sorted.sort(comparator); return sorted
RECURSIVE sortImages(_, _)
sortImages(images, sortOrder) ==
    IF Len(images) <= 1 THEN images
    ELSE LET half == Len(images) \div 2
         IN  Merge(sortImages(SubSeq(images, 1, half), sortOrder),
                   sortImages(SubSeq(images, half + 1, Len(images)), sortOrder),
                   sortOrder)

\* a sortImages that sorts the array it was given and returns it
SortedInPlace(heap, images, sortOrder) ==
    [arrays |-> [heap EXCEPT ![images] = sortImages(heap[images], sortOrder)],
     result |-> images]

\* sortImages on the heap of arrays: images is the address of the argument.
\* const sorted = [...images] allocates a new array holding the same
\* objects, sorted.sort(...) works in place on that copy, return sorted
SortedCopy(heap, images, sortOrder) ==
    [arrays |-> Append(heap, sortImages(heap[images], sortOrder)),
     result |-> Len(heap) + 1]

(***************************************************************************)
(* The host graph.  A host is a description of the graph the queries run   *)
(* against: n blocks whose text contains the image marker substring,       *)
(* numbered 1..n, the blocks whose queries throw, and what the blocks      *)
(* hold (layout).                                                          *)
(***************************************************************************)
T_img == <<"!","[","a","]","(","u",")">>
T_two == <<"!","[","]","("," ",")"," ","!","[","B","]","("," ","v"," ",")">>
T_deny == <<"!","[","d","]","(">> \o Denylisted \o <<")">>
T_none == <<"!","[","x">>

\* the blocks of the layout that hold well-formed markers
HasMarkers(h, k) ==
    CASE h.layout = "dense"  -> k <= 21 \/ k % 40 = 0
      [] h.layout = "sparse" -> k \in {1, 2, 3, 4, 60} \/ k % 40 = 0
      [] OTHER               -> TRUE

HostContent(h, k) ==
    IF h.layout = "single" THEN h.text
    ELSE IF ~HasMarkers(h, k) THEN T_none
    ELSE IF k = 3 THEN T_two
    ELSE IF k = 4 THEN T_deny
    ELSE T_img

HostTitle(h, k) ==
    CASE k % 4 = 0 -> <<>>
      [] k % 4 = 1 -> <<"b">>
      [] k % 4 = 2 -> <<"A">>
      [] OTHER     -> <<"a">>

\* :create/time, 0 grounded by the scan query when the block has none
HostCreateTime(h, k) == IF k % 40 = 0 THEN 0 ELSE 200 - 2 * (k \div 2)

\* the tuples of the identifier scan in the order the host returns them
RawScan(h) == [i \in 1..h.n |-> <<h.n + 1 - i, HostCreateTime(h, h.n + 1 - i)>>]

\* window.roamAlphaAPI.q(blockQuery): "throw", or the result tuples
BlockQuery(h, uid) ==
    IF uid \in h.failing THEN [throws |-> TRUE, rows |-> <<>>]
    ELSE IF uid \in h.missing THEN [throws |-> FALSE, rows |-> <<>>]
    ELSE [throws |-> FALSE, rows |-> << <<HostContent(h, uid), HostTitle(h, uid)>> >>]

\* the three queries of getBlockContext, each result mapped to its strings
ParentRows(h, uid) == << <<"P">> >>
ChildrenRows(h, uid) == IF uid % 2 = 0 THEN << <<"c">>, <<"D">> >> ELSE <<>>
SiblingsRows(h, uid) == IF uid % 3 = 0 THEN << <<"s">> >> ELSE <<>>

(***************************************************************************)
(* getImageBlockUids, processImageBatch, getBlockContext                   *)
(***************************************************************************)
\* results.sort((a, b) => (b[1] || 0) - (a[1] || 0)), stable
UidRank(results, i) ==
    Cardinality({j \in 1..Len(results) :
        LET c == results[i][2] - results[j][2]
        IN  c < 0 \/ (c = 0 /\ j < i)}) + 1

\* the scan's tuples left in the order the host returned them
SortUids_Unsorted(results) == results

SortUids(results) ==
    LET ranked == {<<UidRank(results, i), i>> : i \in 1..Len(results)}
    IN  [r \in 1..Len(results) |-> results[(CHOOSE p \in ranked : p[1] = r)[2]]]

getImageBlockUids(h) ==
    IF h.scanFails THEN <<>> ELSE SortUids(RawScan(h))

\* one iteration of the for loop of processImageBatch: try { query; extract }
\* catch { log }
ImagesOfBlock(h, uid, createTime) ==
    LET res == BlockQuery(h, uid)
    IN  IF res.throws THEN <<>>
        ELSE IF Len(res.rows) > 0
             THEN ExtractImages(uid, createTime, res.rows[1][1], res.rows[1][2])
             ELSE <<>>

\* the concatenation of seqs[lo..hi]
RECURSIVE Flatten(_, _, _)
Flatten(seqs, lo, hi) ==
    IF lo > hi THEN <<>>
    ELSE IF lo = hi THEN seqs[lo]
    ELSE LET mid == (lo + hi) \div 2
         IN  Flatten(seqs, lo, mid) \o Flatten(seqs, mid + 1, hi)

\* the try/catch around the whole loop: the first query that throws ends
\* the batch
processImageBatch_AbortOnThrow(h, uidBatch) ==
    LET thrown == {k \in 1..Len(uidBatch) : BlockQuery(h, uidBatch[k][1]).throws}
        upTo == IF thrown = {} THEN Len(uidBatch)
                ELSE (CHOOSE k \in thrown : \A j \in thrown : k <= j) - 1
    IN  Flatten([k \in 1..upTo |->
                    ImagesOfBlock(h, uidBatch[k][1], uidBatch[k][2])],
                1, upTo)

\* for (const [uid, createTime] of uidBatch) { ... images.push(...) }
processImageBatch(h, uidBatch) ==
    Flatten([k \in 1..Len(uidBatch) |->
                ImagesOfBlock(h, uidBatch[k][1], uidBatch[k][2])],
            1, Len(uidBatch))

getBlockContext(h, uid) ==
    IF uid \in h.ctxFailing
    THEN [parentContent |-> <<>>, childrenContent |-> <<>>, siblingsContent |-> <<>>]
    ELSE [parentContent   |-> JoinSpace(ParentRows(h, uid)),
          childrenContent |-> JoinSpace(ChildrenRows(h, uid)),
          siblingsContent |-> JoinSpace(SiblingsRows(h, uid))]

\* an enricher that fetches the context of every record it is given
NeedsContext_Always(image) == TRUE

\* if (!image.contextLoaded)
NeedsContext(image) == ~image.contextLoaded

\* the body of the async callback of enhanceImagesWithContext for one image
EnhanceImage(h, image) ==
    IF ~NeedsContext(image) THEN image
    ELSE LET ctx == getBlockContext(h, image.uid)
         IN  [image EXCEPT
                !.parentContent = ctx.parentContent,
                !.childrenContent = ctx.childrenContent,
                !.siblingsContent = ctx.siblingsContent,
                !.searchableContent =
                    ToLowerCase(image.blockContent \o <<" ">> \o ctx.parentContent
                                \o <<" ">> \o ctx.childrenContent \o <<" ">>
                                \o ctx.siblingsContent \o <<" ">> \o image.pageTitle),
                !.contextLoaded = TRUE]

(***************************************************************************)
(* State                                                                   *)
(***************************************************************************)
VARIABLES
    host,            \* the graph behind window.roamAlphaAPI.q
    limits,          \* how many galleries and user actions the run explores
    IMAGES_PER_ROW, IMAGES_PER_PAGE, SORT_ORDER,
    localStorage,    \* the three preference keys, <<>> when absent
    popup,           \* the gallery whose overlay is in the document, 0 if none
    created,         \* galleries created so far
    userActions,     \* control changes, searches and page clicks so far
    pc,              \* where each showImageGallery call is suspended
    imageUids,       \* its identifier scan
    batch,           \* the identifiers whose block queries are pending
    processed,       \* identifiers hydrated so far
    hydrateI,        \* the loop index i of the background hydration loop
    allImages,       \* its image list (the live records)
    loadingInfo,     \* its loading indicator is attached to its overlay
    enrichPc,        \* where its enhanceImagesWithContext call is suspended
    enrichI,         \* the loop index i of enhanceImagesWithContext
    contextQueries,  \* getBlockContext calls of its enrichment that returned
    inFlight,        \* the records whose getBlockContext call is pending
    reports,         \* the (processed, total) pairs onProgress was called with
    content,         \* its content element: what is drawn and its dataset
    searchInput,     \* its search input
    button,          \* the topbar button "imager-button" is in the document
    lightbox,        \* the lightbox in the document, 0 if none
    lightboxes,      \* lightboxes created so far
    listeners,       \* the document's keydown listeners, in registration order
    arrays,          \* the arrays a sortImages call works on, by address
    sortCall         \* the sortImages call made: its mode, argument and result

vars == <<host, limits, IMAGES_PER_ROW, IMAGES_PER_PAGE, SORT_ORDER, localStorage,
          popup, created, userActions, pc, imageUids, batch, processed,
          hydrateI, allImages, loadingInfo, enrichPc, enrichI, contextQueries,
          inFlight, reports, content, searchInput, button, lightbox, lightboxes,
          listeners, arrays, sortCall>>

config == <<IMAGES_PER_ROW, IMAGES_PER_PAGE, SORT_ORDER, localStorage>>
pipeline == <<pc, imageUids, batch, processed, hydrateI, allImages,
              loadingInfo, enrichPc, enrichI, contextQueries, inFlight, reports>>
lifecycle == <<button, lightbox, lightboxes, listeners>>
sorter == <<arrays, sortCall>>

Galleries == 1..MaxGalleries

\* an absent value (undefined) is <<>>, a present value v is <<v>>
Undefined == <<>>
Defined(x) == x # <<>>
Val(x) == x[1]

\* a current page that is read as 1 whatever the dataset holds
CurrentPageOf_AlwaysFirst(c) == 1

\* parseInt(content.dataset.currentPage) || 1
CurrentPageOf(c) ==
    IF Defined(c.dsCurrentPage) /\ Val(c.dsCurrentPage) # 0
    THEN Val(c.dsCurrentPage) ELSE 1

\* createPopup: the content element with the loading message, no dataset
NewContent ==
    [html |-> "loading", images |-> <<>>, page |-> 0, perPage |-> 0, perRow |-> 0,
     dsImages |-> Undefined, dsAllImages |-> Undefined, dsCurrentPage |-> Undefined]

\* createImageGrid(images, page, container, allImages): allImagesArg is
\* Undefined when the argument is omitted
createImageGrid(c, images, page, allImagesArg, perPage, perRow) ==
    [c EXCEPT !.html = "grid",
              !.images = images,
              !.page = page,
              !.perPage = perPage,
              !.perRow = perRow,
              !.dsImages = <<images>>,
              !.dsCurrentPage = <<page>>,
              !.dsAllImages = IF Defined(allImagesArg) THEN allImagesArg ELSE @]

\* images.slice(startIdx, endIdx) of the grid on screen
PageImages(c) ==
    IF c.html # "grid" THEN <<>>
    ELSE SubSeq(c.images, (c.page - 1) * c.perPage + 1,
                Min((c.page - 1) * c.perPage + c.perPage, Len(c.images)))

\* a page count that is one more than the pages the list fills
TotalPages_PlusOne(c) == (Len(c.images) + c.perPage - 1) \div c.perPage + 1

\* Math.ceil(images.length / IMAGES_PER_PAGE) of the grid on screen
TotalPages(c) == (Len(c.images) + c.perPage - 1) \div c.perPage

HasPagination(c) == c.html = "grid" /\ Len(c.images) > c.perPage

(***************************************************************************)
(* Initial states: the extension is loaded (onload has read the stored     *)
(* preferences), no gallery has been opened.                               *)
(***************************************************************************)
NoStorage == [rows |-> Undefined, page |-> Undefined, sort |-> Undefined]

Storages == {NoStorage, [NoStorage EXCEPT !.page = <<NumToString(20)>>]}

\* localStorage.getItem(key) is a string that is truthy
Saved(item) == Defined(item) /\ Val(item) # <<>>

\* the same for the sort mode, which the model keeps as a whole string
SavedMode(item) == Defined(item) /\ Val(item) # ""

Host(layout, n, failing) ==
    [layout |-> layout, n |-> n, text |-> <<>>, failing |-> failing,
     missing |-> {}, ctxFailing |-> {}, scanFails |-> FALSE]

EmptyHost == Host("sparse", 0, {})
ScanFailsHost == [Host("sparse", 2, {}) EXCEPT !.scanFails = TRUE]
SmallHost == Host("sparse", 3, {})
DenseHost == [Host("dense", FirstBatchSize + 1, {}) EXCEPT !.ctxFailing = {2}]
LargeHost == [Host("sparse", 120, {1}) EXCEPT !.missing = {2}]

Hosts == {EmptyHost, ScanFailsHost, SmallHost, DenseHost, LargeHost}

\* The larger the graph, the fewer galleries or user actions are explored.
LimitsOf(h) ==
    [opens |-> IF h = DenseHost THEN MaxGalleries - 1 ELSE MaxGalleries,
     acts  |-> IF h = LargeHost THEN MaxUserActions - 1 ELSE MaxUserActions]

\* Block texts: the pieces a text is put together from, and the text of
\* end-to-end scenario 1
S_marker == <<"!","[","a","]","(","u",")">>
S_emptyAlt == <<"!","[","]","(","U",")">>
S_padded == <<"!","[","A","]","("," ","u"," ",")">>
S_blankUrl == <<"!","[","a","]","("," ",")">>
S_emptyUrl == <<"!","[","a","]","(",")">>
S_denied == <<"!","[","d","]","(","m","m","b","i","z",".","q","p","i","c",".","c","n","/","x",")">>
S_unclosed == <<"!","[","a">>
S_tail == <<"]","(","u",")">>
S_broken == <<"!","[","a","]","x","(","u",")">>
S_bareUrl == <<"u",".","p","n","g">>
S_upload == <<"{","{","[","[","u","p","l","o","a","d","]","]",":"," ","u","}","}">>
Snippets == {S_marker, S_emptyAlt, S_padded, S_blankUrl, S_emptyUrl, S_denied, S_unclosed, S_tail, S_broken, S_bareUrl, S_upload}

Scenario1Text ==
    <<"S","e","e"," ","t","h","i","s",":"," ","!","[","c","a","t","]","(","h","t","t","p",":","/","/","x",".","c","o","m","/","c","a","t",".","p">> \o
    <<"n","g",")"," ","a","n","d"," ","!","[","]","(","h","t","t","p",":","/","/","x",".","c","o","m","/","d","o","g",".","j","p","g",")">>

RECURSIVE TextsUpTo(_)
TextsUpTo(k) ==
    IF k = 0 THEN {<<>>}
    ELSE TextsUpTo(k - 1) \cup {t \o sn : t \in TextsUpTo(k - 1), sn \in Snippets}

Texts == TextsUpTo(MaxSnippets) \cup {Scenario1Text}

\* a graph of one block that holds the given text
SingleHosts == {[Host("single", 1, {}) EXCEPT !.text = t] : t \in Texts}

\* the identifier scan of each host, computed once
ScanResults == [h \in Hosts \cup SingleHosts |-> getImageBlockUids(h)]

InitGalleries ==
    /\ popup = 0
    /\ created = 0
    /\ userActions = 0
    /\ pc = [g \in Galleries |-> "idle"]
    /\ imageUids = [g \in Galleries |-> <<>>]
    /\ batch = [g \in Galleries |-> <<>>]
    /\ processed = [g \in Galleries |-> 0]
    /\ hydrateI = [g \in Galleries |-> 0]
    /\ allImages = [g \in Galleries |-> <<>>]
    /\ loadingInfo = [g \in Galleries |-> FALSE]
    /\ enrichPc = [g \in Galleries |-> "idle"]
    /\ enrichI = [g \in Galleries |-> 0]
    /\ contextQueries = [g \in Galleries |-> 0]
    /\ inFlight = [g \in Galleries |-> {}]
    /\ reports = [g \in Galleries |-> <<>>]
    /\ content = [g \in Galleries |-> NewContent]
    /\ searchInput = [g \in Galleries |-> [disabled |-> TRUE, value |-> <<>>]]

\* onload has inserted the topbar button; nothing else is in the document
InitLifecycle ==
    /\ button = TRUE
    /\ lightbox = 0
    /\ lightboxes = 0
    /\ listeners = <<>>

\* no sortImages call is being observed
NoCall == [mode |-> "none", argument |-> 0, result |-> 0]

InitSorter ==
    /\ arrays = <<>>
    /\ sortCall = NoCall

\* the module's let declarations, then onload: if (saved) X = parseInt(saved)
FirstLoad ==
    /\ IMAGES_PER_ROW = IF Saved(localStorage.rows)
                        THEN ParseInt(Val(localStorage.rows))
                        ELSE DefaultImagesPerRow
    /\ IMAGES_PER_PAGE = IF Saved(localStorage.page)
                         THEN ParseInt(Val(localStorage.page))
                         ELSE DefaultImagesPerPage
    /\ SORT_ORDER = IF SavedMode(localStorage.sort) THEN Val(localStorage.sort)
                    ELSE DefaultSortOrder

InitConfig ==
    /\ localStorage \in Storages
    /\ FirstLoad

Init ==
    /\ host \in Hosts
    /\ limits = LimitsOf(host)
    /\ InitConfig
    /\ InitGalleries
    /\ InitLifecycle
    /\ InitSorter

(***************************************************************************)
(* showImageGallery                                                        *)
(***************************************************************************)
\* a lookup that finds no popup whatever the document holds
PopupPresent_Never(p) == FALSE

\* document.getElementById(POPUP_ID), as a condition
PopupPresent(p) == p # 0

\* topbarButton.onclick, the command and the settings button:
\* showImageGallery().
\* if (document.getElementById(POPUP_ID)) return; createPopup(), which
\* registers its escHandler with document.addEventListener("keydown", ...);
\* document.body.appendChild(overlay); await getImageBlockUids()
Open ==
    /\ button
    /\ IF PopupPresent(popup)
       THEN UNCHANGED vars
       ELSE /\ created < limits.opens
            /\ listeners' = Append(listeners,
                                   [kind |-> "popup", id |-> created + 1])
            /\ created' = created + 1
            /\ popup' = created + 1
            /\ content' = [content EXCEPT ![created + 1] = NewContent]
            /\ searchInput' = [searchInput EXCEPT
                   ![created + 1] = [disabled |-> TRUE, value |-> <<>>]]
            /\ pc' = [pc EXCEPT ![created + 1] = "scan"]
            /\ UNCHANGED <<host, limits, button, lightbox, lightboxes, sorter,
                           config, userActions, imageUids, batch, processed,
                           hydrateI, allImages, loadingInfo, enrichPc, enrichI,
                           contextQueries, inFlight, reports>>

\* imageUids.slice(0, firstBatchSize)
FirstBatchOf(uids) == SubSeq(uids, 1, Min(FirstBatchSize, Len(uids)))

\* a remainder that starts on the last identifier of the first batch
RemainingOf_Overlapping(uids) ==
    SubSeq(uids, Min(FirstBatchSize, Len(uids)), Len(uids))

\* imageUids.slice(firstBatchSize)
RemainingOf(uids) == SubSeq(uids, Min(FirstBatchSize, Len(uids)) + 1, Len(uids))

\* the slice taken from the start of the remainder whatever i is
BatchAt_FromStart(remaining, i) ==
    SubSeq(remaining, 1, Min(HydrationBatchSize, Len(remaining)))

\* remainingUids.slice(i, Math.min(i + batchSize, remainingUids.length))
BatchAt(remaining, i) ==
    SubSeq(remaining, i + 1, Min(i + HydrationBatchSize, Len(remaining)))

\* the empty check left out: an empty first batch is hydrated and drawn
ScanReturn_NoEmptyCheck(g) ==
    /\ pc[g] = "scan"
    /\ imageUids' = [imageUids EXCEPT ![g] = ScanResults[host]]
    /\ content' = content
    /\ pc' = [pc EXCEPT ![g] = "first"]
    /\ batch' = [batch EXCEPT ![g] = FirstBatchOf(ScanResults[host])]
    /\ UNCHANGED <<host, limits, lifecycle, sorter, config, popup, created,
                   userActions, processed, hydrateI, allImages, loadingInfo,
                   enrichPc, enrichI, contextQueries, inFlight, reports,
                   searchInput>>

\* the identifier scan returns: the terminal "no images" state, or the
\* first batch's block queries are issued
ScanReturn(g) ==
    /\ pc[g] = "scan"
    /\ LET uids == ScanResults[host]
       IN  /\ imageUids' = [imageUids EXCEPT ![g] = uids]
           /\ IF Len(uids) = 0
              THEN /\ content' = [content EXCEPT ![g].html = "none"]
                   /\ pc' = [pc EXCEPT ![g] = "empty"]
                   /\ batch' = batch
              ELSE /\ content' = content
                   /\ pc' = [pc EXCEPT ![g] = "first"]
                   /\ batch' = [batch EXCEPT ![g] = FirstBatchOf(uids)]
    /\ UNCHANGED <<host, limits, lifecycle, sorter, config, popup, created,
                   userActions, processed, hydrateI, allImages, loadingInfo,
                   enrichPc, enrichI, contextQueries, inFlight, reports,
                   searchInput>>

\* const searchInput = document.getElementById('imager-search-input'):
\* the input of the popup in the document, 0 for null
SearchInputInDocument == popup

\* the null check left out
SearchInputFound_NoNullCheck(target) == TRUE

\* if (searchInput)
SearchInputFound(target) == target # 0

\* searchInput.disabled = false behind the guard; a property write on null
\* throws, which rejects the promise of showImageGallery
EnableSearch(g) ==
    IF SearchInputFound(SearchInputInDocument)
    THEN IF SearchInputInDocument = 0
         THEN /\ pc' = [pc EXCEPT ![g] = "crashed"]
              /\ searchInput' = searchInput
         ELSE /\ pc' = [pc EXCEPT ![g] = "done"]
              /\ searchInput' = [searchInput EXCEPT
                                   ![SearchInputInDocument].disabled = FALSE]
    ELSE /\ pc' = [pc EXCEPT ![g] = "done"]
         /\ searchInput' = searchInput

\* the first batch is hydrated: sort, render page 1, then either start the
\* background loop or enable the search
FirstBatchDone(g) ==
    /\ pc[g] = "first"
    /\ LET firstImages == processImageBatch(host, batch[g])
           sorted == sortImages(firstImages, SORT_ORDER)
           remaining == RemainingOf(imageUids[g])
       IN  /\ allImages' = [allImages EXCEPT ![g] = sorted]
           /\ content' = [content EXCEPT ![g] =
                  createImageGrid(@, sorted, 1, <<sorted>>,
                                  IMAGES_PER_PAGE, IMAGES_PER_ROW)]
           /\ processed' = [processed EXCEPT ![g] = Len(batch[g])]
           /\ IF Len(remaining) > 0
              THEN /\ loadingInfo' = [loadingInfo EXCEPT ![g] = TRUE]
                   /\ batch' = [batch EXCEPT ![g] = BatchAt(remaining, 0)]
                   /\ pc' = [pc EXCEPT ![g] = "hydrate"]
                   /\ searchInput' = searchInput
              ELSE /\ loadingInfo' = loadingInfo
                   /\ batch' = [batch EXCEPT ![g] = <<>>]
                   /\ EnableSearch(g)
    /\ UNCHANGED <<host, limits, lifecycle, sorter, config, popup, created,
                   userActions, imageUids, hydrateI, enrichPc, enrichI,
                   contextQueries, inFlight, reports>>

\* the grid redrawn at page 1 after every batch
RendersBatch_Always(currentPage) == TRUE

\* the gallery's page as the loop reads it decides between a render and a
\* silent update of the stored data
RendersBatch(currentPage) == currentPage = 1

\* a background batch is hydrated: append, re-sort, render or update the
\* stored data, then await the 10 ms timer
BatchDone(g) ==
    /\ pc[g] = "hydrate"
    /\ LET newImages == processImageBatch(host, batch[g])
           sorted == sortImages(allImages[g] \o newImages, SORT_ORDER)
       IN  /\ allImages' = [allImages EXCEPT ![g] = sorted]
           /\ content' = [content EXCEPT ![g] =
                  IF RendersBatch(CurrentPageOf(@))
                  THEN createImageGrid(@, sorted, 1, <<sorted>>,
                                       IMAGES_PER_PAGE, IMAGES_PER_ROW)
                  ELSE [@ EXCEPT !.dsAllImages = <<sorted>>,
                                 !.dsImages = <<sorted>>]]
    /\ processed' = [processed EXCEPT ![g] = @ + Len(batch[g])]
    /\ batch' = [batch EXCEPT ![g] = <<>>]
    /\ pc' = [pc EXCEPT ![g] = "yield"]
    /\ UNCHANGED <<host, limits, lifecycle, sorter, config, popup, created,
                   userActions, imageUids, hydrateI, loadingInfo, enrichPc,
                   enrichI, contextQueries, inFlight, reports, searchInput>>

\* the records of the enrichment batch that starts at index i (0-based)
EnrichBatch(images, i) == (i + 1)..Min(i + EnrichBatchSize, Len(images))

\* batch.map(async (image) => ...): the records of the batch at index i
\* whose callback calls getBlockContext, none when the loop is over
Pending(images, i) ==
    IF i < Len(images)
    THEN {k \in EnrichBatch(images, i) : NeedsContext(images[k])}
    ELSE {}

\* a loop index that is never advanced
NextIndex_Stuck(i) == i

\* for (let i = 0; ...; i += batchSize)
NextIndex(i) == i + HydrationBatchSize

\* the timer fires: the next batch's queries are issued, or the loop is
\* over: remove the indicator, enable the search, call
\* enhanceImagesWithContext (not awaited), return
TimerFired(g) ==
    /\ pc[g] = "yield"
    /\ LET remaining == RemainingOf(imageUids[g])
           i == NextIndex(hydrateI[g])
       IN  /\ hydrateI' = [hydrateI EXCEPT ![g] = i]
           /\ IF i < Len(remaining)
              THEN /\ batch' = [batch EXCEPT ![g] = BatchAt(remaining, i)]
                   /\ pc' = [pc EXCEPT ![g] = "hydrate"]
                   /\ UNCHANGED <<loadingInfo, searchInput, enrichPc, inFlight>>
              ELSE /\ batch' = batch
                   /\ loadingInfo' = [loadingInfo EXCEPT ![g] = FALSE]
                   /\ EnableSearch(g)
                   /\ enrichPc' = [enrichPc EXCEPT ![g] =
                          IF pc'[g] = "crashed" THEN @
                          ELSE IF Len(allImages[g]) > 0 THEN "fetching"
                          ELSE "done"]
                   /\ inFlight' = [inFlight EXCEPT ![g] =
                          IF pc'[g] = "crashed" THEN @
                          ELSE Pending(allImages[g], 0)]
    /\ UNCHANGED <<host, limits, lifecycle, sorter, config, popup, created,
                   userActions, imageUids, processed, allImages, enrichI,
                   contextQueries, reports, content>>

\* the callback storing the list as the displayed list too
ProgressCallback_AlsoDisplayed(c, images) ==
    IF Defined(c.dsAllImages)
    THEN [c EXCEPT !.dsAllImages = <<images>>, !.dsImages = <<images>>]
    ELSE c

\* onProgress: if (content.dataset.allImages) content.dataset.allImages = ...
ProgressCallback(c, images) ==
    IF Defined(c.dsAllImages) THEN [c EXCEPT !.dsAllImages = <<images>>] ELSE c

\* an enricher whose loop ends when a context fetch of the batch fails: the
\* record of the failed fetch is left as it was, no later batch is issued
EnrichBatchDone_StopsOnFailure(g) ==
    /\ enrichPc[g] = "fetching"
    /\ LET inBatch == EnrichBatch(allImages[g], enrichI[g])
           failed == {k \in inBatch : /\ NeedsContext(allImages[g][k])
                                      /\ allImages[g][k].uid \in host.ctxFailing}
           images == [k \in 1..Len(allImages[g]) |->
                        IF k \in inBatch \ failed
                        THEN EnhanceImage(host, allImages[g][k])
                        ELSE allImages[g][k]]
           i == enrichI[g] + EnrichBatchSize
       IN  /\ allImages' = [allImages EXCEPT ![g] = images]
           /\ content' = [content EXCEPT ![g] =
                  IF failed = {} THEN ProgressCallback(@, images) ELSE @]
           /\ enrichI' = [enrichI EXCEPT ![g] = i]
           /\ contextQueries' = [contextQueries EXCEPT ![g] =
                  @ + Cardinality({k \in inBatch : NeedsContext(allImages[g][k])})]
           /\ enrichPc' = [enrichPc EXCEPT ![g] =
                  IF failed = {} /\ i < Len(images) THEN "fetching" ELSE "done"]
           /\ inFlight' = [inFlight EXCEPT ![g] =
                  IF failed = {} THEN Pending(images, i) ELSE {}]
           /\ reports' = [reports EXCEPT ![g] =
                  IF failed = {}
                  THEN Append(@, <<Min(i, Len(images)), Len(images)>>) ELSE @]
    /\ UNCHANGED <<host, limits, lifecycle, sorter, config, popup, created,
                   userActions, pc, imageUids, batch, processed, hydrateI,
                   loadingInfo, searchInput>>

\* a batch that counts as settled whatever is still pending
BatchSettled_OnFirst(pending) == TRUE

\* await Promise.all(batch.map(...)): every callback of the batch is through
BatchSettled(pending) == pending = {}

\* the context fetch of record k has returned: the record is updated; when
\* it was the last of its batch, the progress callback runs with
\* (Math.min(i + batchSize, images.length), images.length) and the next
\* batch's fetches are issued
FetchReturn(g, k) ==
    /\ enrichPc[g] = "fetching"
    /\ k \in inFlight[g]
    /\ LET images == [allImages[g] EXCEPT ![k] = EnhanceImage(host, @)]
           rest == inFlight[g] \ {k}
           i == enrichI[g] + EnrichBatchSize
       IN  /\ allImages' = [allImages EXCEPT ![g] = images]
           /\ contextQueries' = [contextQueries EXCEPT ![g] = @ + 1]
           /\ IF BatchSettled(rest)
              THEN /\ content' = [content EXCEPT ![g] = ProgressCallback(@, images)]
                   /\ reports' = [reports EXCEPT ![g] =
                          Append(@, <<Min(i, Len(images)), Len(images)>>)]
                   /\ enrichI' = [enrichI EXCEPT ![g] = i]
                   /\ enrichPc' = [enrichPc EXCEPT ![g] =
                          IF i < Len(images) THEN "fetching" ELSE "done"]
                   /\ inFlight' = [inFlight EXCEPT ![g] =
                          rest \cup Pending(images, i)]
              ELSE /\ inFlight' = [inFlight EXCEPT ![g] = rest]
                   /\ UNCHANGED <<content, reports, enrichI, enrichPc>>
    /\ UNCHANGED <<host, limits, lifecycle, sorter, config, popup, created,
                   userActions, pc, imageUids, batch, processed, hydrateI,
                   loadingInfo, searchInput>>

\* every context fetch of the batch still pending returns: the records are
\* updated, the progress callback runs, the next batch's fetches are issued
EnrichBatchDone(g) ==
    /\ enrichPc[g] = "fetching"
    /\ LET inBatch == EnrichBatch(allImages[g], enrichI[g])
           images == [k \in 1..Len(allImages[g]) |->
                        IF k \in inBatch THEN EnhanceImage(host, allImages[g][k])
                        ELSE allImages[g][k]]
           i == enrichI[g] + EnrichBatchSize
       IN  /\ allImages' = [allImages EXCEPT ![g] = images]
           /\ content' = [content EXCEPT ![g] = ProgressCallback(@, images)]
           /\ enrichI' = [enrichI EXCEPT ![g] = i]
           /\ contextQueries' = [contextQueries EXCEPT ![g] =
                  @ + Cardinality({k \in inBatch : NeedsContext(allImages[g][k])})]
           /\ enrichPc' = [enrichPc EXCEPT ![g] =
                  IF i < Len(images) THEN "fetching" ELSE "done"]
           /\ inFlight' = [inFlight EXCEPT ![g] = Pending(images, i)]
           /\ reports' = [reports EXCEPT ![g] =
                  Append(@, <<Min(i, Len(images)), Len(images)>>)]
    /\ UNCHANGED <<host, limits, lifecycle, sorter, config, popup, created,
                   userActions, pc, imageUids, batch, processed, hydrateI,
                   loadingInfo, searchInput>>

(***************************************************************************)
(* The handlers of the popup in the document.  A select fires onchange     *)
(* when its value changes; a disabled input or button takes no input.      *)
(***************************************************************************)
\* the options and the search terms the user picks among
RowChoices == {3, 6}
PageChoices == {20, 50}
SortChoices == {"newest", "oldest", "page-alpha"}
SearchTerms == {<<>>, <<"B">>}

UserActs ==
    /\ popup # 0
    /\ userActions < limits.acts
    /\ userActions' = userActions + 1

\* closeBtn.onclick, and overlay.onclick on the overlay itself
Close ==
    /\ popup # 0
    /\ popup' = 0
    /\ UNCHANGED <<host, limits, lifecycle, sorter, config, created,
                   userActions, pipeline, content, searchInput>>

\* rowSelector.onchange
RowChange(v) ==
    /\ UserActs
    /\ v # IMAGES_PER_ROW
    /\ IMAGES_PER_ROW' = v
    /\ localStorage' = [localStorage EXCEPT !.rows = <<NumToString(v)>>]
    /\ content' = [content EXCEPT ![popup] =
           IF Defined(@.dsImages)
           THEN createImageGrid(@, Val(@.dsImages), CurrentPageOf(@), Undefined,
                                IMAGES_PER_PAGE, v)
           ELSE @]
    /\ UNCHANGED <<host, limits, lifecycle, sorter, IMAGES_PER_PAGE,
                   SORT_ORDER, popup, created, pipeline, searchInput>>

\* a handler that changes the page size without storing it
PageSizeChange_NotStored(v) ==
    /\ UserActs
    /\ v # IMAGES_PER_PAGE
    /\ IMAGES_PER_PAGE' = v
    /\ content' = [content EXCEPT ![popup] =
           IF Defined(@.dsImages)
           THEN createImageGrid(@, Val(@.dsImages), 1, Undefined, v,
                                IMAGES_PER_ROW)
           ELSE @]
    /\ UNCHANGED <<host, limits, lifecycle, sorter, IMAGES_PER_ROW,
                   SORT_ORDER, localStorage, popup, created, pipeline,
                   searchInput>>

\* pageSelector.onchange
PageSizeChange(v) ==
    /\ UserActs
    /\ v # IMAGES_PER_PAGE
    /\ IMAGES_PER_PAGE' = v
    /\ localStorage' = [localStorage EXCEPT !.page = <<NumToString(v)>>]
    /\ content' = [content EXCEPT ![popup] =
           IF Defined(@.dsImages)
           THEN createImageGrid(@, Val(@.dsImages), 1, Undefined, v,
                                IMAGES_PER_ROW)
           ELSE @]
    /\ UNCHANGED <<host, limits, lifecycle, sorter, IMAGES_PER_ROW,
                   SORT_ORDER, popup, created, pipeline, searchInput>>

\* a handler that stores the new mode and redraws the stored list as it is
SortChange_NoResort(v) ==
    /\ UserActs
    /\ v # SORT_ORDER
    /\ SORT_ORDER' = v
    /\ localStorage' = [localStorage EXCEPT !.sort = <<v>>]
    /\ content' = [content EXCEPT ![popup] =
           IF Defined(@.dsAllImages)
           THEN createImageGrid(@, Val(@.dsAllImages), 1, @.dsAllImages,
                                IMAGES_PER_PAGE, IMAGES_PER_ROW)
           ELSE @]
    /\ UNCHANGED <<host, limits, lifecycle, sorter, IMAGES_PER_ROW,
                   IMAGES_PER_PAGE, popup, created, pipeline, searchInput>>

\* sortSelector.onchange
SortChange(v) ==
    /\ UserActs
    /\ v # SORT_ORDER
    /\ SORT_ORDER' = v
    /\ localStorage' = [localStorage EXCEPT !.sort = <<v>>]
    /\ content' = [content EXCEPT ![popup] =
           IF Defined(@.dsAllImages)
           THEN LET sortedImages == sortImages(Val(@.dsAllImages), v)
                IN  createImageGrid(
                        [@ EXCEPT !.dsAllImages = <<sortedImages>>,
                                  !.dsImages = <<sortedImages>>],
                        sortedImages, 1, <<sortedImages>>,
                        IMAGES_PER_PAGE, IMAGES_PER_ROW)
           ELSE @]
    /\ UNCHANGED <<host, limits, lifecycle, sorter, IMAGES_PER_ROW,
                   IMAGES_PER_PAGE, popup, created, pipeline, searchInput>>

\* a filter that looks for the term in the block text only
FilterImages_BlockTextOnly(images, searchTerm) ==
    IF Len(searchTerm) = 0 THEN images
    ELSE SelectSeq(images,
                   LAMBDA img : Includes(ToLowerCase(img.blockContent), searchTerm))

\* searchTerm ? allImages.filter(img =>
\*     img.searchableContent.includes(searchTerm)) : allImages
FilterImages(images, searchTerm) ==
    IF Len(searchTerm) = 0 THEN images
    ELSE SelectSeq(images, LAMBDA img : Includes(img.searchableContent, searchTerm))

\* searchInput.oninput
Search(term) ==
    /\ UserActs
    /\ ~searchInput[popup].disabled
    /\ term # searchInput[popup].value
    /\ searchInput' = [searchInput EXCEPT ![popup].value = term]
    /\ content' = [content EXCEPT ![popup] =
           IF Defined(@.dsAllImages)
           THEN LET filteredImages ==
                        sortImages(FilterImages(Val(@.dsAllImages), ToLowerCase(term)),
                                   SORT_ORDER)
                IN  createImageGrid(@, filteredImages, 1, Undefined,
                                    IMAGES_PER_PAGE, IMAGES_PER_ROW)
           ELSE @]
    /\ UNCHANGED <<host, limits, lifecycle, sorter, config, popup, created,
                   pipeline>>

\* prevBtn.onclick: the button closes over the images and page it was
\* rendered with
PrevPage ==
    /\ UserActs
    /\ HasPagination(content[popup])
    /\ content[popup].page # 1
    /\ content' = [content EXCEPT ![popup] =
           createImageGrid(@, @.images, @.page - 1, Undefined,
                           IMAGES_PER_PAGE, IMAGES_PER_ROW)]
    /\ UNCHANGED <<host, limits, lifecycle, sorter, config, popup, created,
                   pipeline, searchInput>>

\* nextBtn.onclick
NextPage ==
    /\ UserActs
    /\ HasPagination(content[popup])
    /\ content[popup].page # TotalPages(content[popup])
    /\ content' = [content EXCEPT ![popup] =
           createImageGrid(@, @.images, @.page + 1, Undefined,
                           IMAGES_PER_PAGE, IMAGES_PER_ROW)]
    /\ UNCHANGED <<host, limits, lifecycle, sorter, config, popup, created,
                   pipeline, searchInput>>

(***************************************************************************)
(* The lightbox, the Escape key and the extension's load and unload hooks. *)
(***************************************************************************)
\* imageContainer.onclick of a tile of the grid: createLightbox(url, alt)
\* removes the lightbox in the document, appends a new one and registers
\* its escHandler
OpenLightbox ==
    /\ popup # 0
    /\ Len(PageImages(content[popup])) > 0
    /\ lightboxes < MaxLightboxes
    /\ lightboxes' = lightboxes + 1
    /\ lightbox' = lightboxes + 1
    /\ listeners' = Append(listeners, [kind |-> "lightbox", id |-> lightboxes + 1])
    /\ UNCHANGED <<host, limits, button, sorter, config, popup, created,
                   userActions, pipeline, content, searchInput>>

\* closeBtn.onclick of the lightbox, and lightbox.onclick on its background
CloseLightbox ==
    /\ lightbox # 0
    /\ lightbox' = 0
    /\ UNCHANGED <<host, limits, button, lightboxes, listeners, sorter,
                   config, popup, created, userActions, pipeline, content,
                   searchInput>>

\* document.removeEventListener("keydown", escHandler)
RemoveListener(ls, l) == SelectSeq(ls, LAMBDA x : x # l)

\* one escHandler run on an Escape keydown; doc is the document: its popup,
\* its lightbox and its keydown listeners.  The popup's handler acts when
\* document.getElementById(POPUP_ID) finds a popup, whichever it is, and
\* removes its own overlay; the lightbox's handler always acts.
escHandler(doc, l) ==
    IF l.kind = "popup"
    THEN IF doc.popup # 0
         THEN [doc EXCEPT !.popup = IF @ = l.id THEN 0 ELSE @,
                          !.listeners = RemoveListener(@, l)]
         ELSE doc
    ELSE [doc EXCEPT !.lightbox = IF @ = l.id THEN 0 ELSE @,
                     !.listeners = RemoveListener(@, l)]

\* the listeners registered when the event is dispatched run in the order
\* of their registration
RECURSIVE Dispatch(_, _)
Dispatch(doc, todo) ==
    IF Len(todo) = 0 THEN doc
    ELSE Dispatch(escHandler(doc, Head(todo)), Tail(todo))

\* the user presses Escape
Escape ==
    /\ LET doc == Dispatch([popup |-> popup, lightbox |-> lightbox,
                            listeners |-> listeners], listeners)
       IN  /\ popup' = doc.popup
           /\ lightbox' = doc.lightbox
           /\ listeners' = doc.listeners
    /\ UNCHANGED <<host, limits, button, lightboxes, sorter, config, created,
                   userActions, pipeline, content, searchInput>>

\* onunload: the button, the popup and the lightbox are removed by id
Unload ==
    /\ button
    /\ button' = FALSE
    /\ popup' = 0
    /\ lightbox' = 0
    /\ UNCHANGED <<host, limits, lightboxes, listeners, sorter, config,
                   created, userActions, pipeline, content, searchInput>>

\* onload of an extension that was unloaded: the saved preferences are
\* read, the topbar button is inserted
Load ==
    /\ ~button
    /\ button' = TRUE
    /\ IMAGES_PER_ROW' = IF Saved(localStorage.rows)
                         THEN ParseInt(Val(localStorage.rows))
                         ELSE IMAGES_PER_ROW
    /\ IMAGES_PER_PAGE' = IF Saved(localStorage.page)
                          THEN ParseInt(Val(localStorage.page))
                          ELSE IMAGES_PER_PAGE
    /\ SORT_ORDER' = IF SavedMode(localStorage.sort) THEN Val(localStorage.sort)
                     ELSE SORT_ORDER
    /\ UNCHANGED <<host, limits, lightbox, lightboxes, listeners, sorter,
                   localStorage, popup, created, userActions, pipeline,
                   content, searchInput>>

(***************************************************************************)
(* Specifications                                                          *)
(***************************************************************************)
HostStep ==
    \E g \in Galleries :
        \/ ScanReturn(g)
        \/ FirstBatchDone(g)
        \/ BatchDone(g)
        \/ TimerFired(g)
        \/ EnrichBatchDone(g)

UserStep ==
    \/ Open
    \/ Close
    \/ \E v \in RowChoices : RowChange(v)
    \/ \E v \in PageChoices : PageSizeChange(v)
    \/ \E v \in SortChoices : SortChange(v)
    \/ \E term \in SearchTerms : Search(term)
    \/ PrevPage
    \/ NextPage

Next == HostStep \/ UserStep

Spec == Init /\ [][Next]_vars

\* The Extractor on every text of Texts: a graph of one block is opened and
\* hydrated.
InitExtract ==
    /\ host \in SingleHosts
    /\ limits = [opens |-> 1, acts |-> 0]
    /\ localStorage = NoStorage
    /\ InitConfig
    /\ InitGalleries
    /\ InitLifecycle
    /\ InitSorter

NextExtract == Open \/ \E g \in Galleries : ScanReturn(g) \/ FirstBatchDone(g)

SpecExtract == InitExtract /\ [][NextExtract]_vars

(***************************************************************************)
(* The life cycle: galleries on a small graph, with the lightbox, the      *)
(* Escape key, the preference controls and the unload and load hooks.      *)
(***************************************************************************)
LifeStorages ==
    Storages \cup {[rows |-> <<NumToString(3)>>, page |-> <<NumToString(20)>>,
                    sort |-> <<"oldest">>]}

InitLife ==
    /\ host = SmallHost
    /\ limits = [opens |-> MaxGalleries, acts |-> MaxUserActions]
    /\ localStorage \in LifeStorages
    /\ FirstLoad
    /\ InitGalleries
    /\ InitLifecycle
    /\ InitSorter

NextLife ==
    \/ Open
    \/ \E g \in Galleries : ScanReturn(g)
    \/ \E g \in Galleries : FirstBatchDone(g)
    \/ Close
    \/ \E v \in RowChoices : RowChange(v)
    \/ \E v \in PageChoices : PageSizeChange(v)
    \/ \E v \in SortChoices : SortChange(v)
    \/ OpenLightbox
    \/ CloseLightbox
    \/ Escape
    \/ Unload
    \/ Load

SpecLife == InitLife /\ [][NextLife]_vars

(***************************************************************************)
(* The Context Enricher on its own: enhanceImagesWithContext is called on  *)
(* a hydrated list, and called again on the same list any number of times, *)
(* while between the calls the graph changes what a context query would    *)
(* answer.                                                                 *)
(***************************************************************************)
EnrichHost == Host("dense", EnrichBatchSize + 2, {})
ContextFailures == {{}, {2}, {3, 5}, {12}, {2, 11}}

InitEnrich ==
    /\ host \in {[EnrichHost EXCEPT !.ctxFailing = f] : f \in ContextFailures}
    /\ limits = [opens |-> 1, acts |-> 0]
    /\ localStorage = NoStorage
    /\ InitConfig
    /\ InitLifecycle
    /\ InitSorter
    /\ popup = 0
    /\ created = 1
    /\ userActions = 0
    /\ pc = [g \in Galleries |-> IF g = 1 THEN "done" ELSE "idle"]
    /\ imageUids = [g \in Galleries |->
                      IF g = 1 THEN getImageBlockUids(host) ELSE <<>>]
    /\ batch = [g \in Galleries |-> <<>>]
    /\ processed = [g \in Galleries |-> Len(imageUids[g])]
    /\ hydrateI = [g \in Galleries |-> 0]
    /\ allImages = [g \in Galleries |->
                      sortImages(processImageBatch(host, imageUids[g]), SORT_ORDER)]
    /\ loadingInfo = [g \in Galleries |-> FALSE]
    /\ enrichPc = [g \in Galleries |-> "idle"]
    /\ enrichI = [g \in Galleries |-> 0]
    /\ contextQueries = [g \in Galleries |-> 0]
    /\ inFlight = [g \in Galleries |-> {}]
    /\ reports = [g \in Galleries |-> <<>>]
    /\ content = [g \in Galleries |-> NewContent]
    /\ searchInput = [g \in Galleries |-> [disabled |-> TRUE, value |-> <<>>]]

\* enhanceImagesWithContext(images, onProgress): the loop starts at i = 0
\* and issues the context queries of its first batch
EnhanceCall(g) ==
    /\ pc[g] = "done"
    /\ enrichPc[g] \in {"idle", "done"}
    /\ enrichI' = [enrichI EXCEPT ![g] = 0]
    /\ enrichPc' = [enrichPc EXCEPT ![g] =
           IF Len(allImages[g]) > 0 THEN "fetching" ELSE "done"]
    /\ inFlight' = [inFlight EXCEPT ![g] = Pending(allImages[g], 0)]
    /\ reports' = [reports EXCEPT ![g] = <<>>]
    /\ UNCHANGED <<host, limits, lifecycle, sorter, config, popup, created,
                   userActions, pc, imageUids, batch, processed, hydrateI,
                   allImages, loadingInfo, contextQueries,
                   content, searchInput>>

\* the graph is edited: other context queries fail from now on
GraphEdit ==
    /\ \E f \in ContextFailures :
          /\ f # host.ctxFailing
          /\ host' = [host EXCEPT !.ctxFailing = f]
    /\ UNCHANGED <<limits, lifecycle, sorter, config, popup, created,
                   userActions, pipeline, content, searchInput>>

NextEnrich ==
    \/ \E g \in Galleries : EnhanceCall(g)
    \/ \E g \in Galleries : EnrichBatchDone(g)
    \/ GraphEdit

SpecEnrich == InitEnrich /\ [][NextEnrich]_vars

(***************************************************************************)
(* The Context Enricher fetch by fetch: the context queries of a batch     *)
(* return one at a time, in any order, or several together.                *)
(***************************************************************************)
InitFetch ==
    /\ InitEnrich
    /\ host.ctxFailing = {2}

NextFetch ==
    \/ \E g \in Galleries : EnhanceCall(g)
    \/ \E g \in Galleries : \E k \in 1..Len(allImages[g]) : FetchReturn(g, k)
    \/ \E g \in Galleries : EnrichBatchDone(g)

SpecFetch == InitFetch /\ [][NextFetch]_vars

(***************************************************************************)
(* The Sorter on its own: sortImages is called once, in any mode, on an    *)
(* array of up to MaxSortLen records.  Each element of the argument is an  *)
(* object of its own (ref is the object's identity); only createTime and   *)
(* pageTitle are read by the comparators.                                  *)
(***************************************************************************)
SortTimes == {NullTime, 50, 100}
SortTitles == {<<"a">>, <<"B">>, <<"b">>}

SortInputs ==
    UNION {{[i \in 1..n |-> [ref |-> i, createTime |-> f[i][1],
                             pageTitle |-> f[i][2]]] :
               f \in [1..n -> SortTimes \X SortTitles]} : n \in 0..MaxSortLen}

InitSort ==
    /\ host = EmptyHost
    /\ limits = [opens |-> 0, acts |-> 0]
    /\ localStorage = NoStorage
    /\ InitConfig
    /\ InitGalleries
    /\ InitLifecycle
    /\ arrays \in {<<images>> : images \in SortInputs}
    /\ sortCall = NoCall

\* sortImages(images, sortOrder) with the array at address 1
SortImagesCall(sortOrder) ==
    /\ sortCall = NoCall
    /\ LET call == SortedCopy(arrays, 1, sortOrder)
       IN  /\ arrays' = call.arrays
           /\ sortCall' = [mode |-> sortOrder, argument |-> 1,
                           result |-> call.result]
    /\ UNCHANGED <<host, limits, lifecycle, config, popup, created,
                   userActions, pipeline, content, searchInput>>

NextSort == \E sortOrder \in SortOptions : SortImagesCall(sortOrder)

SpecSort == InitSort /\ [][NextSort]_vars



(***************************************************************************)
(* Properties                                                              *)
(***************************************************************************)
\* the hydration that showImageGallery started for gallery g has completed
HydrationComplete(g) == pc[g] = "done"

\* C1: the search input of the gallery in the document is disabled unless
\* the hydration started for that gallery has completed, whatever the
\* sequence of open, close and reopen.
C1_SearchDisabledUntilHydrated ==
    popup # 0 => (searchInput[popup].disabled \/ HydrationComplete(popup))

(***************************************************************************)
(* The markers of a text, stated on positions: "!" at p, "[" at p + 1,     *)
(* the first "]" after them at q, "(" at q + 1, the first ")" after it at  *)
(* r, and at least one character between the parentheses.                  *)
(***************************************************************************)
MarkersOf(s) ==
    UNION {UNION {{<<p, q, r>> :
                     r \in {x \in (q + 3)..Len(s) :
                              /\ s[x] = ")"
                              /\ \A j \in (q + 2)..(x - 1) : s[j] # ")"}} :
                  q \in {x \in (p + 2)..(Len(s) - 1) :
                           /\ s[x] = "]"
                           /\ s[x + 1] = "("
                           /\ \A j \in (p + 2)..(x - 1) : s[j] # "]"}} :
           p \in {x \in 1..(Len(s) - 1) : s[x] = "!" /\ s[x + 1] = "["}}

\* the markers met reading left to right, each starting after the end of
\* the one before
MatchedMarkers(s) ==
    CHOOSE S \in SUBSET MarkersOf(s) :
        \A m \in MarkersOf(s) :
            m \in S <=> ~\E o \in S : o[1] < m[1] /\ m[1] <= o[3]

\* u without its leading and trailing whitespace
Stripped(u) ==
    LET inked == {j \in 1..Len(u) : u[j] \notin WhiteSpace}
    IN  IF inked = {} THEN <<>>
        ELSE SubSeq(u, CHOOSE a \in inked : \A j \in inked : a <= j,
                       CHOOSE b \in inked : \A j \in inked : b >= j)

Contains(u, d) ==
    \E o \in 0..(Len(u) - Len(d)) : \A j \in 1..Len(d) : u[o + j] = d[j]

\* the <<url, alt>> pairs a text is to yield
ExpectedPairs(s) ==
    LET kept == {m \in MatchedMarkers(s) :
                    ~Contains(Stripped(SubSeq(s, m[2] + 2, m[3] - 1)), Denylisted)}
        nth(k) == CHOOSE m \in kept :
                      Cardinality({o \in kept : o[1] < m[1]}) = k - 1
    IN  [k \in 1..Cardinality(kept) |->
            LET m == nth(k)
                alt == SubSeq(s, m[1] + 2, m[2] - 1)
            IN  <<Stripped(SubSeq(s, m[2] + 2, m[3] - 1)),
                  IF alt = <<>> THEN DefaultAlt ELSE alt>>]

PairsOf(images) == [k \in 1..Len(images) |-> <<images[k].url, images[k].alt>>]

Scenario1Pairs ==
    << << <<"h","t","t","p",":","/","/","x",".","c","o","m","/","c","a","t",".","p","n","g">>,
          <<"c","a","t">> >>,
       << <<"h","t","t","p",":","/","/","x",".","c","o","m","/","d","o","g",".","j","p","g">>,
          <<"I","m","a","g","e">> >> >>

\* C9: the records hydrated from a block are, in left-to-right order and
\* without deduplication, one per well-formed marker whose trimmed URL does
\* not contain the denylisted domain, each with the trimmed URL and the
\* alt text or "Image"; the text of scenario 1 yields its two records.
C9_ExtractorRecords ==
    \A g \in Galleries :
        pc[g] = "done" =>
            /\ PairsOf(allImages[g]) = ExpectedPairs(host.text)
            /\ host.text = Scenario1Text => PairsOf(allImages[g]) = Scenario1Pairs

\* a text with a repeated URL, a padded URL and a denylisted URL has been
\* hydrated
C9_Witness ==
    /\ pc[1] = "done"
    /\ host.text = S_marker \o S_denied \o S_padded
    /\ Len(allImages[1]) = 2

\* C10: every record of the image list has a url that is not empty and has
\* no leading or trailing whitespace.
C10_UrlNonBlankTrimmed ==
    \A g \in Galleries : \A k \in 1..Len(allImages[g]) :
        LET u == allImages[g][k].url
        IN  /\ Len(u) > 0
            /\ u[1] \notin WhiteSpace
            /\ u[Len(u)] \notin WhiteSpace


(***************************************************************************)
(* Hydration                                                               *)
(***************************************************************************)
\* the list is in the order of the sort mode
InOrder(images, sortOrder) ==
    \A i \in 1..Len(images) : \A j \in (i + 1)..Len(images) :
        Comparator(sortOrder, images[i], images[j]) <= 0

\* the <<url, alt>> pairs of the markers of block uid, none when its query
\* fails or returns nothing
BlockPairs(uid) ==
    IF uid \in host.failing \cup host.missing THEN <<>>
    ELSE PairsOf(ExtractImages(uid, 0, HostContent(host, uid), HostTitle(host, uid)))

\* the records of the list that come from block uid, in list order
RecordsOf(images, uid) == SelectSeq(images, LAMBDA r : r.uid = uid)

\* the list holds the records of the first `processed` identifiers of the
\* scan and no others
HydratedExactly(g) ==
    /\ \A j \in 1..Len(imageUids[g]) :
          PairsOf(RecordsOf(allImages[g], imageUids[g][j][1])) =
              IF j <= processed[g] THEN BlockPairs(imageUids[g][j][1]) ELSE <<>>
    /\ \A k \in 1..Len(allImages[g]) :
          \E j \in 1..Len(imageUids[g]) : imageUids[g][j][1] = allImages[g][k].uid

BatchesInScanOrder(g) ==
    LET n == Len(imageUids[g])
    IN  /\ pc[g] \in {"first", "hydrate", "yield", "done"} => n > 0
        /\ pc[g] = "first" =>
              /\ processed[g] = 0
              /\ batch[g] = SubSeq(imageUids[g], 1, Min(50, n))
        /\ pc[g] = "hydrate" =>
              /\ processed[g] >= 50 /\ processed[g] % 50 = 0 /\ processed[g] < n
              /\ batch[g] = SubSeq(imageUids[g], processed[g] + 1,
                                   Min(processed[g] + 50, n))
        /\ pc[g] = "yield" =>
              /\ batch[g] = <<>>
              /\ processed[g] = n \/ (processed[g] % 50 = 0 /\ processed[g] < n)
        /\ pc[g] = "done" => batch[g] = <<>> /\ processed[g] = n
        /\ n = 120 => processed[g] \in {0, 50, 100, 120}
        /\ HydratedExactly(g)

\* the grid of gallery g is what it was
GridUnchanged(g) ==
    /\ content'[g].html = content[g].html
    /\ content'[g].images = content[g].images
    /\ content'[g].page = content[g].page
    /\ content'[g].perPage = content[g].perPage
    /\ content'[g].perRow = content[g].perRow

RendersOnBatch(g) ==
    /\ processed'[g] # processed[g] =>
          /\ InOrder(allImages'[g], SORT_ORDER)
          /\ content[g].page \in {0, 1} =>
                /\ content'[g].html = "grid"
                /\ content'[g].page = 1
                /\ content'[g].images = allImages'[g]
    /\ (processed'[g] = processed[g] /\ userActions' = userActions
            /\ content'[g].html = "grid") =>
          GridUnchanged(g)

\* C2: hydration consumes the identifiers in scan order, first min(50, n),
\* then batches of at most 50; when a batch is issued the list holds exactly
\* the records of the batches before it; each completed batch leaves the
\* list sorted by the current sort mode and, on page 1, rendered; the
\* pipeline renders at no other step (with n = 120: after 50, 100, 120).
C2_BatchesAppendedSortedRendered ==
    /\ [](\A g \in Galleries : BatchesInScanOrder(g))
    /\ [][\A g \in Galleries : RendersOnBatch(g)]_vars

\* 120 identifiers are hydrated and the last render on page 1 shows the list
C2_Witness ==
    \E g \in Galleries :
        /\ Len(imageUids[g]) = 120 /\ processed[g] = 120 /\ pc[g] = "done"
        /\ enrichI[g] = 0
        /\ content[g].html = "grid" /\ content[g].page = 1
        /\ Len(allImages[g]) > 1
        /\ content[g].images = allImages[g]

BackgroundBatchCompletes(g) ==
    (pc[g] = "hydrate" /\ pc'[g] = "yield") =>
        /\ InOrder(allImages'[g], SORT_ORDER)
        /\ Len(allImages'[g]) >= Len(allImages[g])
        /\ content'[g].dsAllImages = <<allImages'[g]>>
        /\ content'[g].dsImages = <<allImages'[g]>>
        /\ IF content[g].page = 1
           THEN /\ content'[g].html = "grid"
                /\ content'[g].page = 1
                /\ content'[g].dsCurrentPage = <<1>>
                /\ content'[g].images = allImages'[g]
                /\ PageImages(content'[g]) =
                       SubSeq(allImages'[g], 1,
                              Min(IMAGES_PER_PAGE, Len(allImages'[g])))
           ELSE /\ GridUnchanged(g)
                /\ PageImages(content'[g]) = PageImages(content[g])
                /\ content'[g].dsCurrentPage = content[g].dsCurrentPage

\* C3: when a background batch completes on page 1 the grid is re-rendered
\* at page 1 from the re-sorted list; on another page the page number and
\* the tiles stay and only the stored full and displayed lists are replaced
\* by the re-sorted list.
C3_RenderOnlyOnPageOne ==
    [][\A g \in Galleries : BackgroundBatchCompletes(g)]_vars

\* a batch has completed while the user was on page 2
C3_Witness ==
    \E g \in Galleries :
        /\ pc[g] = "yield"
        /\ content[g].page = 2
        /\ Len(PageImages(content[g])) > 0
        /\ Val(content[g].dsImages) # content[g].images

AllEnriched(g) ==
    \A k \in 1..Len(allImages[g]) :
        /\ allImages[g][k].contextLoaded
        /\ Len(allImages[g][k].parentContent) > 0

\* showImageGallery has returned and no enrichment is running
Quiescent(g) == pc[g] = "done" /\ enrichPc[g] # "fetching"

\* C4: on a graph whose queries all return, once the pipeline of a gallery
\* with a non-empty scan has returned and no enrichment is running, every
\* record of the list is enriched, whatever the size of the scan.
C4_EveryRecordEnriched ==
    \A g \in Galleries :
        (Quiescent(g) /\ host.failing = {} /\ host.ctxFailing = {}) =>
            AllEnriched(g)

\* a gallery whose pipeline returned without starting the enrichment stays
\* as it is: nothing enriches its records later
NeverEnrichedLater ==
    [][\A g \in Galleries :
          (pc[g] = "done" /\ enrichPc[g] = "idle") =>
              /\ pc'[g] = "done" /\ enrichPc'[g] = "idle"
              /\ allImages'[g] = allImages[g]]_vars

EnrichmentAfterHydration(g) ==
    enrichPc[g] # "idle" =>
        /\ pc[g] = "done"
        /\ batch[g] = <<>>
        /\ processed[g] = Len(imageUids[g])

SameButContext(a, b) ==
    /\ a.uid = b.uid /\ a.url = b.url /\ a.alt = b.alt
    /\ a.createTime = b.createTime /\ a.pageTitle = b.pageTitle
    /\ a.blockContent = b.blockContent

EnrichmentFrame(g) ==
    (enrichPc[g] = "fetching" /\ enrichI'[g] # enrichI[g]) =>
        /\ GridUnchanged(g)
        /\ content'[g].dsImages = content[g].dsImages
        /\ content'[g].dsCurrentPage = content[g].dsCurrentPage
        /\ Len(allImages'[g]) = Len(allImages[g])
        /\ \A k \in 1..Len(allImages[g]) :
              SameButContext(allImages'[g][k], allImages[g][k])
        /\ UNCHANGED <<popup, searchInput, config>>

\* C5: context queries are issued only once the first batch and the whole
\* background loop are finished, and an enrichment step changes neither the
\* current page nor the displayed list, only the context fields and the
\* search text of the records.
C5_EnrichmentLastAndSilent ==
    /\ [](\A g \in Galleries : EnrichmentAfterHydration(g))
    /\ [][\A g \in Galleries : EnrichmentFrame(g)]_vars

\* the enrichment of a gallery with a background loop has finished
C5_Witness ==
    \E g \in Galleries :
        /\ enrichPc[g] = "done"
        /\ processed[g] > FirstBatchSize
        /\ Len(allImages[g]) > 0 /\ AllEnriched(g)
        /\ content[g].html = "grid"

\* how far the loops of gallery g have come: grows with every batch
\* hydrated, every resumption of showImageGallery and every enrichment batch
Advance(g) ==
    4 * processed[g]
    + (CASE pc[g] \in {"idle", "yield"} -> 0
         [] pc[g] \in {"scan", "hydrate"} -> 1
         [] pc[g] = "first" -> 2
         [] OTHER -> 3)
    + enrichI[g]
    + (CASE enrichPc[g] = "idle" -> 0 [] enrichPc[g] = "fetching" -> 1 [] OTHER -> 2)

LoopState(g) ==
    <<pc[g], batch[g], processed[g], hydrateI[g], allImages[g], enrichPc[g],
      enrichI[g]>>

Completed(g) ==
    /\ processed[g] = Len(imageUids[g])
    /\ batch[g] = <<>>
    /\ enrichPc[g] = "done" =>
          \A k \in 1..Len(allImages[g]) : allImages[g][k].contextLoaded

\* C6: closing the gallery changes nothing in the state of the loops; no
\* loop ever throws or stops short: each of its steps advances it, detached
\* or not, and when showImageGallery has returned every identifier has been
\* processed; only a newly created gallery is ever attached to the document.
C6_CloseDoesNotAbort ==
    /\ [](\A g \in Galleries :
            /\ pc[g] \in {"idle", "scan", "empty", "first", "hydrate", "yield", "done"}
            /\ pc[g] = "done" => Completed(g))
    /\ [][(popup # 0 /\ popup' = 0) => UNCHANGED pipeline]_vars
    /\ [][\A g \in Galleries :
              LoopState(g)' # LoopState(g) => Advance(g)' > Advance(g)]_vars
    /\ [][(popup' # popup /\ popup' # 0) =>
              (popup = 0 /\ popup' = created + 1 /\ pc[popup'] = "idle")]_vars

\* the only gallery was closed before its background loop ended (its search
\* input was never enabled), and hydration and enrichment have completed
C6_Witness ==
    /\ popup = 0 /\ created = 1
    /\ searchInput[1].disabled
    /\ processed[1] = 120
    /\ pc[1] = "done" /\ enrichPc[1] = "done"
    /\ Len(allImages[1]) > 0 /\ AllEnriched(1)

\* C7: a block whose query fails contributes no record and nothing else is
\* lost: at every point the list holds the records of every other block
\* hydrated so far, of the same batch and of the batches after it, and when
\* showImageGallery has returned every identifier has been processed.
C7_FailedBlockOnlyOmitted ==
    \A g \in Galleries :
        /\ HydratedExactly(g)
        /\ pc[g] # "crashed"
        /\ pc[g] = "done" => processed[g] = Len(imageUids[g])

\* the query of block 1 failed; the records of block 3 (later in the same
\* batch) and of block 60 (a later batch) are in the list of the completed
\* pipeline
C7_Witness ==
    \E g \in Galleries :
        /\ host.failing = {1}
        /\ pc[g] = "done"
        /\ RecordsOf(allImages[g], 1) = <<>>
        /\ RecordsOf(allImages[g], 3) # <<>>
        /\ RecordsOf(allImages[g], 60) # <<>>

\* C8: a gallery whose scan yields no identifiers (an empty graph or a
\* failed scan) is in the "no images" state once the scan has returned: no
\* grid, no hydration batch, no enrichment, whatever the user does.
C8_EmptyScanTerminal ==
    \A g \in Galleries :
        (pc[g] \notin {"idle", "scan"} /\ Len(imageUids[g]) = 0) =>
            /\ pc[g] = "empty"
            /\ content[g].html = "none"
            /\ content[g].dsImages = Undefined
            /\ batch[g] = <<>> /\ processed[g] = 0 /\ allImages[g] = <<>>
            /\ enrichPc[g] = "idle" /\ enrichI[g] = 0
            /\ ~loadingInfo[g]

\* the scan failed and the user has used the gallery's controls since
C8_Witness ==
    \E g \in Galleries :
        /\ host.scanFails
        /\ pc[g] = "empty"
        /\ content[g].html = "none"
        /\ userActions = MaxUserActions


(***************************************************************************)
(* The Sorter                                                              *)
(***************************************************************************)
\* a sortImages call has returned
Sorted == sortCall # NoCall
SortArgument == arrays[sortCall.argument]
SortResult == arrays[sortCall.result]

\* C11: sortImages never mutates its input: across the call, in every mode,
\* the argument array keeps its length, its elements (the same objects) and
\* their order, and the array returned is another array than the argument.
C11_SortLeavesInputAlone ==
    [][(sortCall = NoCall /\ sortCall' # NoCall) =>
          /\ Len(arrays') > Len(arrays)
          /\ \A a \in 1..Len(arrays) : arrays'[a] = arrays[a]
          /\ sortCall'.result # sortCall'.argument
          /\ sortCall'.result \notin 1..Len(arrays)]_vars

\* an argument that was out of order has been sorted: the result is in
\* another order than the argument, which is still as it was
C11_Witness ==
    /\ Sorted
    /\ sortCall.mode = "oldest"
    /\ [i \in 1..Len(SortArgument) |-> SortArgument[i].createTime] = <<100, 50>>
    /\ [i \in 1..Len(SortResult) |-> SortResult[i].createTime] = <<50, 100>>

\* out holds exactly the objects of in, each once
IsPermutation(out, in) ==
    /\ Len(out) = Len(in)
    /\ \A i \in 1..Len(in) : \E j \in 1..Len(out) : out[j] = in[i]
    /\ \A i, j \in 1..Len(out) : out[i].ref = out[j].ref => i = j

TimesOf(images) == [i \in 1..Len(images) |-> images[i].createTime]

\* C12: in modes 'newest' and 'oldest' the output is a permutation of the
\* input, its timestamped records are monotonic in createTime (descending
\* for newest, ascending for oldest), every record without a timestamp
\* comes after every timestamped one, and [null, 100, 50] gives
\* [100, 50, null] for newest and [50, 100, null] for oldest.
C12_TimeOrders ==
    (Sorted /\ sortCall.mode \in {"newest", "oldest"}) =>
        /\ IsPermutation(SortResult, SortArgument)
        /\ \A i, j \in 1..Len(SortResult) :
              (i < j /\ SortResult[i].createTime # NullTime
                     /\ SortResult[j].createTime # NullTime) =>
                  IF sortCall.mode = "newest"
                  THEN SortResult[i].createTime >= SortResult[j].createTime
                  ELSE SortResult[i].createTime <= SortResult[j].createTime
        /\ \A i, j \in 1..Len(SortResult) :
              (SortResult[i].createTime = NullTime
                 /\ SortResult[j].createTime # NullTime) => j < i
        /\ TimesOf(SortArgument) = <<NullTime, 100, 50>> =>
              TimesOf(SortResult) = IF sortCall.mode = "newest"
                                    THEN <<100, 50, NullTime>>
                                    ELSE <<50, 100, NullTime>>

C12_Witness ==
    /\ Sorted
    /\ sortCall.mode = "oldest"
    /\ TimesOf(SortArgument) = <<NullTime, 100, 50>>
    /\ TimesOf(SortResult) = <<50, 100, NullTime>>

\* C13: in modes 'page-alpha' and 'page-reverse' the output is a
\* permutation of the input that is monotonic in the locale comparison of
\* pageTitle: ascending for page-alpha, descending for page-reverse.
C13_TitleOrders ==
    (Sorted /\ sortCall.mode \in {"page-alpha", "page-reverse"}) =>
        /\ IsPermutation(SortResult, SortArgument)
        /\ \A i, j \in 1..Len(SortResult) :
              i < j =>
                  IF sortCall.mode = "page-alpha"
                  THEN LocaleCompare(SortResult[i].pageTitle,
                                     SortResult[j].pageTitle) <= 0
                  ELSE LocaleCompare(SortResult[i].pageTitle,
                                     SortResult[j].pageTitle) >= 0

TitlesOf(images) == [i \in 1..Len(images) |-> images[i].pageTitle]

C13_Witness ==
    /\ Sorted
    /\ sortCall.mode = "page-reverse"
    /\ TitlesOf(SortArgument) = <<<<"a">>, <<"B">>, <<"b">>>>
    /\ TitlesOf(SortResult) = <<<<"B">>, <<"b">>, <<"a">>>>

(***************************************************************************)
(* The Search Filter                                                       *)
(***************************************************************************)
\* the step is an input event on the search field of the open gallery
SearchStep == popup # 0 /\ searchInput'[popup].value # searchInput[popup].value

\* the positions of the records of images whose corpus contains term
Matching(images, term) ==
    {i \in 1..Len(images) : Includes(images[i].searchableContent, term)}

\* list holds exactly the records of images at the positions in keep
HoldsExactly(list, images, keep) ==
    /\ Len(list) = Cardinality(keep)
    /\ \A i \in keep : \E j \in 1..Len(list) : list[j] = images[i]
    /\ \A j \in 1..Len(list) : \E i \in keep : list[j] = images[i]

\* C14: an input event with term T draws a grid of exactly the records of
\* the stored full list whose searchableContent contains T lower-cased;
\* with the empty term the grid holds every record of the full list; this
\* is so whether or not the records have been enriched.
C14_FilterShowsMatches ==
    [][(SearchStep /\ Defined(content[popup].dsAllImages)) =>
          LET full == Val(content[popup].dsAllImages)
              T == ToLowerCase(searchInput'[popup].value)
              shown == content'[popup].images
          IN  /\ content'[popup].html = "grid"
              /\ content'[popup].page = 1
              /\ content'[popup].dsImages = <<shown>>
              /\ content'[popup].dsAllImages = <<full>>
              /\ HoldsExactly(shown, full, Matching(full, T))
              /\ Len(T) = 0 => HoldsExactly(shown, full, 1..Len(full))]_vars

\* the term "B" has selected some records of the full list and left others
\* out, while a record of the full list was still waiting for its context
C14_Witness ==
    /\ popup # 0
    /\ searchInput[popup].value = <<"B">>
    /\ content[popup].html = "grid"
    /\ Defined(content[popup].dsAllImages)
    /\ LET full == Val(content[popup].dsAllImages)
       IN  /\ Len(content[popup].images) > 0
           /\ Len(content[popup].images) < Len(full)
           /\ HoldsExactly(content[popup].images, full, Matching(full, <<"b">>))
           /\ \E i \in 1..Len(full) : ~full[i].contextLoaded
           /\ \E i \in 1..Len(full) : full[i].contextLoaded

(***************************************************************************)
(* The Context Enricher                                                    *)
(***************************************************************************)
\* the records of gallery g that have been enriched
Enriched(g) == {k \in 1..Len(allImages[g]) : allImages[g][k].contextLoaded}

\* C15: enriching an enriched record is a no-op: whatever the enricher does
\* later, and whatever the graph holds by then, a record with
\* contextLoaded = true keeps its context fields and its searchableContent
\* and no context query is made for it, so that the queries made never
\* exceed one per record.
C15_EnrichmentIdempotent ==
    /\ [](\A g \in Galleries : contextQueries[g] = Cardinality(Enriched(g)))
    /\ [][\A g \in Galleries :
            /\ Len(allImages'[g]) = Len(allImages[g])
            /\ \A k \in Enriched(g) : allImages'[g][k] = allImages[g][k]
            /\ contextQueries'[g] - contextQueries[g]
                 = Cardinality(Enriched(g)') - Cardinality(Enriched(g))]_vars

\* a second run of the enricher is under way over a list whose records are
\* all enriched, one of them with the empty context of a failed fetch that
\* would succeed now
C15_Witness ==
    /\ enrichPc[1] = "fetching"
    /\ enrichI[1] = EnrichBatchSize
    /\ Enriched(1) = 1..Len(allImages[1])
    /\ Len(allImages[1]) > EnrichBatchSize
    /\ host.ctxFailing = {}
    /\ \E k \in 1..Len(allImages[1]) : Len(allImages[1][k].parentContent) = 0

\* the record holds no context
NoContext(r) ==
    /\ r.parentContent = <<>>
    /\ r.childrenContent = <<>>
    /\ r.siblingsContent = <<>>

\* the record holds the context of its own block
OwnContext(r) ==
    /\ r.parentContent = JoinSpace(ParentRows(host, r.uid))
    /\ r.childrenContent = JoinSpace(ChildrenRows(host, r.uid))
    /\ r.siblingsContent = JoinSpace(SiblingsRows(host, r.uid))

\* C16: when the context fetch of a record fails, the record's parent,
\* children and sibling fields stay empty, every other record the enricher
\* has gone through holds the context of its own block, batches included
\* that came after the failure, and the enricher stops only when it has
\* gone through every record.
C16_ContextFailureIsolated ==
    \A g \in Galleries :
        /\ \A k \in 1..Len(allImages[g]) :
              LET r == allImages[g][k]
              IN  IF r.contextLoaded /\ r.uid \notin host.ctxFailing
                  THEN OwnContext(r) ELSE NoContext(r)
        /\ enrichPc[g] = "fetching" =>
              /\ enrichI[g] < Len(allImages[g])
              /\ 1..enrichI[g] \subseteq Enriched(g)
        /\ enrichPc[g] = "done" => Enriched(g) = 1..Len(allImages[g])

\* the enricher is through three batches: the fetch failed for the record
\* of block 2, a record of the same batch and the last record of the list
\* hold their own context
C16_Witness ==
    \E g \in Galleries :
        /\ enrichPc[g] = "done"
        /\ Len(allImages[g]) > 2 * EnrichBatchSize
        /\ \E k, j \in 1..EnrichBatchSize :
              /\ allImages[g][k].uid = 2
              /\ allImages[g][k].uid \in host.ctxFailing
              /\ allImages[g][k].contextLoaded
              /\ NoContext(allImages[g][k])
              /\ allImages[g][j].uid # 2
              /\ allImages[g][j].contextLoaded
              /\ Len(allImages[g][j].parentContent) > 0
        /\ Len(allImages[g][Len(allImages[g])].parentContent) > 0

(***************************************************************************)
(* The search corpus                                                       *)
(***************************************************************************)
\* s with every run of spaces read as one separator: the words of s
RECURSIVE Words(_, _)
Words(s, word) ==
    IF Len(s) = 0 THEN IF Len(word) = 0 THEN <<>> ELSE <<word>>
    ELSE IF Head(s) = " "
         THEN (IF Len(word) = 0 THEN <<>> ELSE <<word>>) \o Words(Tail(s), <<>>)
         ELSE Words(Tail(s), Append(word, Head(s)))

\* the lower-cased concatenation of the textual fields the record holds
FieldsCorpus(r) ==
    ToLowerCase(JoinSpace(<<r.blockContent, r.parentContent, r.childrenContent,
                            r.siblingsContent, r.pageTitle>>))

\* the corpus of the record is that concatenation, the number of spaces
\* between two fields left aside
CorpusConsistent(r) ==
    Words(r.searchableContent, <<>>) = Words(FieldsCorpus(r), <<>>)

\* C17: in every reachable state the searchableContent of every record is
\* the lower-cased concatenation of the blockContent, parentContent,
\* childrenContent, siblingsContent and pageTitle the record holds, before
\* and after enrichment, records with the fallback pageTitle included.
C17_CorpusMatchesFields ==
    \A g \in Galleries : \A k \in 1..Len(allImages[g]) :
        CorpusConsistent(allImages[g][k])

\* The corpus is out of step with the fields only for records that took
\* the fallback pageTitle and have not been enriched yet.
CorpusConsistentButFallback ==
    \A g \in Galleries : \A k \in 1..Len(allImages[g]) :
        LET r == allImages[g][k]
        IN  (r.contextLoaded \/ r.pageTitle # Untitled) => CorpusConsistent(r)

(***************************************************************************)
(* The life cycle                                                          *)
(***************************************************************************)
\* the extension is unloaded: onunload has run and onload has not since
Unloaded == ~button

\* C18: once the unload hook has run, whatever was open and however it was
\* closed before, nothing the extension injected remains: the topbar
\* button, the popup and the lightbox are out of the document and no
\* keydown listener of a popup or of a lightbox is registered.
C18_UnloadRemovesEverything ==
    Unloaded => (popup = 0 /\ lightbox = 0 /\ Len(listeners) = 0)

\* The elements are removed by the hook; only the listeners stay.
UnloadRemovesElements == Unloaded => (popup = 0 /\ lightbox = 0)

(***************************************************************************)
(* The controls                                                            *)
(***************************************************************************)
\* the step is taken with a grid drawn in the gallery in the document
GridStep == popup # 0 /\ popup' = popup /\ content[popup].html = "grid"

\* C19: once a grid has been rendered, a change of the page size or of the
\* sort order leaves the gallery on page 1, and a change of the row count
\* redraws the stored displayed list, unchanged, at the page number the
\* gallery was on, with the new row count.
C19_PageResetRules ==
    [][GridStep =>
          /\ (IMAGES_PER_PAGE' # IMAGES_PER_PAGE \/ SORT_ORDER' # SORT_ORDER) =>
                /\ content'[popup].html = "grid"
                /\ content'[popup].page = 1
                /\ content'[popup].dsCurrentPage = <<1>>
          /\ IMAGES_PER_ROW' # IMAGES_PER_ROW =>
                /\ content'[popup].html = "grid"
                /\ content'[popup].page = content[popup].page
                /\ content'[popup].dsCurrentPage = <<content[popup].page>>
                /\ content'[popup].dsImages = content[popup].dsImages
                /\ content'[popup].images = Val(content[popup].dsImages)
                /\ content'[popup].perRow = IMAGES_PER_ROW'
                /\ content'[popup].perPage = content[popup].perPage]_vars

\* the row count was changed on page 2: the gallery is still on page 2
C19_Witness ==
    /\ popup # 0
    /\ content[popup].html = "grid"
    /\ content[popup].page = 2
    /\ Len(PageImages(content[popup])) > 0
    /\ content[popup].perRow = 3
    /\ IMAGES_PER_ROW = 3
    /\ localStorage.rows = <<NumToString(3)>>

(***************************************************************************)
(* The persisted preferences                                               *)
(***************************************************************************)
\* the stored item is what setItem stores for the number in memory; with no
\* item stored the number in memory is the default
StoredNumber(item, inMemory, default) ==
    IF Defined(item) THEN Val(item) = NumToString(inMemory)
    ELSE inMemory = default

StoredMode(item, inMemory, default) ==
    IF Defined(item) THEN Val(item) = inMemory ELSE inMemory = default

\* the step is a run of onload
LoadStep == ~button /\ button'

\* C20: from empty or valid storage, after any sequence of loads and
\* preference changes the three stored preferences are those in memory
\* (an absent one standing for the default), each is one of its allowed
\* options, and a load leaves in memory exactly what is stored.
C20_PreferencesRoundTrip ==
    /\ [](/\ StoredNumber(localStorage.rows, IMAGES_PER_ROW, DefaultImagesPerRow)
          /\ StoredNumber(localStorage.page, IMAGES_PER_PAGE, DefaultImagesPerPage)
          /\ StoredMode(localStorage.sort, SORT_ORDER, DefaultSortOrder)
          /\ IMAGES_PER_ROW \in RowOptions
          /\ IMAGES_PER_PAGE \in PageOptions
          /\ SORT_ORDER \in SortOptions)
    /\ [][LoadStep =>
            /\ localStorage' = localStorage
            /\ Defined(localStorage.rows) =>
                  IMAGES_PER_ROW' = ParseInt(Val(localStorage.rows))
            /\ Defined(localStorage.page) =>
                  IMAGES_PER_PAGE' = ParseInt(Val(localStorage.page))
            /\ Defined(localStorage.sort) => SORT_ORDER' = Val(localStorage.sort)
            /\ <<IMAGES_PER_ROW, IMAGES_PER_PAGE, SORT_ORDER>>'
                 = <<IMAGES_PER_ROW, IMAGES_PER_PAGE, SORT_ORDER>>]_vars

\* the load restored rows 3, page size 20 and mode 'oldest' from storage;
\* the user has since changed the rows to 6 and the mode to 'newest', and
\* both are stored
C20_Witness ==
    /\ button
    /\ userActions = 2
    /\ localStorage = [rows |-> <<NumToString(6)>>, page |-> <<NumToString(20)>>,
                       sort |-> <<"newest">>]
    /\ IMAGES_PER_ROW = 6
    /\ IMAGES_PER_PAGE = 20
    /\ SORT_ORDER = "newest"

(***************************************************************************)
(* The page size the README states                                         *)
(***************************************************************************)
\* README, Features and Performance: "20 images per page"
ReadmeImagesPerPage == 20

\* C21: with no saved page size, every rendered page holds at most 20
\* images and the pagination controls are there as soon as the list drawn
\* has more than 20 images.
C21_TwentyPerPageByDefault ==
    \A g \in Galleries :
        (~Defined(localStorage.page) /\ content[g].html = "grid") =>
            /\ Len(PageImages(content[g])) <= ReadmeImagesPerPage
            /\ Len(content[g].images) > ReadmeImagesPerPage =>
                  HasPagination(content[g])

\* What the code does with no saved page size: pages of at most 50 images,
\* pagination controls from 51 images on.
DefaultPageIsFifty ==
    \A g \in Galleries :
        (~Defined(localStorage.page) /\ content[g].html = "grid") =>
            /\ content[g].perPage = DefaultImagesPerPage
            /\ Len(PageImages(content[g])) <= DefaultImagesPerPage
            /\ HasPagination(content[g]) <=>
                  Len(content[g].images) > DefaultImagesPerPage

GridShown == popup # 0 /\ content[popup].html = "grid"

C24_BatchesSequential ==
    /\ [](\A g \in Galleries :
            LET total == Len(allImages[g])
            IN  /\ inFlight[g] \subseteq EnrichBatch(allImages[g], enrichI[g])
                /\ Cardinality(inFlight[g]) <= EnrichBatchSize
                /\ enrichPc[g] # "fetching" => inFlight[g] = {}
                /\ Len(reports[g]) = enrichI[g] \div EnrichBatchSize
                /\ \A j \in 1..Len(reports[g]) :
                      reports[g][j] = <<Min(EnrichBatchSize * j, total), total>>
                /\ \A j \in 1..(Len(reports[g]) - 1) :
                      reports[g][j][1] < reports[g][j + 1][1]
                /\ (enrichPc[g] = "done" /\ Len(reports[g]) > 0) =>
                      reports[g][Len(reports[g])][1] = total)
    /\ [][\A g \in Galleries :
            inFlight'[g] \ inFlight[g] # {} =>
                /\ inFlight'[g] \cap inFlight[g] = {}
                /\ \A k \in 1..enrichI'[g] : allImages'[g][k].contextLoaded]_vars

\* the first batch of ten is through and reported as (10, 12); of the two
\* fetches of the second batch one has returned, the other is in flight
C24_Witness ==
    /\ enrichPc[1] = "fetching"
    /\ enrichI[1] = EnrichBatchSize
    /\ reports[1] = << <<10, 12>> >>
    /\ inFlight[1] = {12}
    /\ allImages[1][11].contextLoaded
    /\ ~allImages[1][12].contextLoaded

(***************************************************************************)
(* Order of the identifiers handed to hydration                            *)
(***************************************************************************)
\* position in imageUids of the last identifier of the batch being hydrated
BatchEnd(g) == processed[g] + Len(batch[g])

\* C25: the identifier list handed to hydration carries each block's creation
\* time (0 when the block has none) and is ordered by it, descending; so the
\* identifiers already hydrated are at least as new as those of the batch in
\* hand, which are at least as new as those still to come, and no block
\* without creation time precedes one that has it.
C25_NewestIdentifiersFirst ==
    \A g \in 1..MaxGalleries :
        LET ids == imageUids[g]
        IN  /\ \A i \in 1..Len(ids) : ids[i][2] = HostCreateTime(host, ids[i][1])
            /\ \A i, j \in 1..Len(ids) : i < j => ids[i][2] >= ids[j][2]
            /\ \A i, j \in 1..Len(ids) : (ids[i][2] = 0 /\ ids[j][2] # 0) => j < i
            /\ pc[g] \in {"first", "hydrate"} =>
                  /\ BatchEnd(g) <= Len(ids)
                  /\ batch[g] = SubSeq(ids, processed[g] + 1, BatchEnd(g))
                  /\ \A b \in 1..Len(batch[g]) :
                        /\ \A e \in 1..processed[g] : ids[e][2] >= batch[g][b][2]
                        /\ \A l \in (BatchEnd(g) + 1)..Len(ids) :
                              batch[g][b][2] >= ids[l][2]

\* the last of three batches is in hand: it holds the blocks without creation
\* time, after blocks that have one, and the host returned the scan oldest first
C25_Witness ==
    /\ pc[1] = "hydrate"
    /\ processed[1] = FirstBatchSize + HydrationBatchSize
    /\ BatchEnd(1) = Len(imageUids[1])
    /\ batch[1][1][2] > 0
    /\ batch[1][Len(batch[1])][2] = 0
    /\ RawScan(host)[1][2] = 0
    /\ imageUids[1][1][2] > imageUids[1][FirstBatchSize + 1][2]

(***************************************************************************)
(* The search term and the grid                                            *)
(***************************************************************************)
\* the term the search input of the open gallery holds
SearchTerm == searchInput[popup].value

\* C26: whenever the search input holds a non-empty term, every record the
\* grid displays has the lower-cased term in its search corpus.
C26_GridMatchesSearchTerm ==
    (GridShown /\ SearchTerm # <<>>) =>
        \A k \in 1..Len(PageImages(content[popup])) :
            Includes(PageImages(content[popup])[k].searchableContent,
                     ToLowerCase(SearchTerm))

(***************************************************************************)
(* One popup at a time                                                     *)
(***************************************************************************)
\* the galleries whose discovery pipeline has been started
Started == {g \in 1..MaxGalleries : pc[g] # "idle"}

\* the galleries whose pipeline has not run to its end
Running == {g \in 1..MaxGalleries : pc[g] \in {"scan", "first", "hydrate", "yield"}}

\* C27: the document holds at most one popup, the last one created or none;
\* a step taken while a popup is present creates no popup and starts no
\* pipeline, whatever the pipelines of this and of closed galleries are
\* doing, and a step that creates a popup creates one, in a document
\* without popup.
C27_AtMostOnePopup ==
    /\ [](popup \in {0, created} /\ Started = 1..created)
    /\ [][/\ popup # 0 => (created' = created /\ Started' = Started
                           /\ popup' \in {popup, 0})
          /\ created' # created =>
                (popup = 0 /\ created' = created + 1 /\ popup' = created'
                 /\ Started' = Started \cup {created'})]_vars

\* the open action can be taken (the button is there) while a popup is
\* present and the pipelines of that popup and of a closed one both run
C27_Witness ==
    /\ popup = MaxGalleries
    /\ button
    /\ Running = {1, MaxGalleries}

(***************************************************************************)
(* The list at the end of hydration                                        *)
(***************************************************************************)
Triples(images) ==
    [k \in 1..Len(images) |-> <<images[k].uid, images[k].url, images[k].alt>>]

Count(seq, x) == Cardinality({i \in 1..Len(seq) : seq[i] = x})

\* how many times the extractor yields record t over the identifiers of the
\* scan of gallery g, a block whose query fails or finds nothing yielding none
ExtractorCount(g, t) ==
    Cardinality({j \in 1..Len(imageUids[g]) : imageUids[g][j][1] = t[1]})
        * Count(BlockPairs(t[1]), <<t[2], t[3]>>)

\* images holds every record of the extractor as often as the extractor
\* yields it, and nothing else
ExtractorMultiset(g, images) ==
    /\ \A k \in 1..Len(images) :
          Count(Triples(images), Triples(images)[k]) =
              ExtractorCount(g, Triples(images)[k])
    /\ \A j \in 1..Len(imageUids[g]) :
          LET uid == imageUids[g][j][1]
          IN  \A p \in 1..Len(BlockPairs(uid)) :
                  LET t == <<uid, BlockPairs(uid)[p][1], BlockPairs(uid)[p][2]>>
                  IN  Count(Triples(images), t) = ExtractorCount(g, t)

\* C28: when the hydration loop of a gallery has finished, every identifier
\* of the scan has been hydrated, and the gallery's list, like the list its
\* grid stores, holds exactly the records the extractor yields for the
\* identifiers whose block query succeeded, each as often as it is yielded;
\* every hydration step takes the identifiers that follow those already
\* hydrated, so each is hydrated once, whatever the user does meanwhile.
C28_ListIsExtractorMultiset ==
    /\ [](\A g \in 1..MaxGalleries : pc[g] = "done" =>
             /\ processed[g] = Len(imageUids[g])
             /\ ExtractorMultiset(g, allImages[g])
             /\ Defined(content[g].dsAllImages)
             /\ ExtractorMultiset(g, Val(content[g].dsAllImages)))
    /\ [][\A g \in 1..MaxGalleries : processed'[g] # processed[g] =>
             /\ processed'[g] > processed[g]
             /\ processed'[g] <= Len(imageUids[g])
             /\ batch[g] = SubSeq(imageUids[g], processed[g] + 1, processed'[g])]_vars

\* three batches were hydrated, one block's query failed, and the sort
\* order was changed by the user
C28_Witness ==
    /\ pc[1] = "done"
    /\ Len(imageUids[1]) > FirstBatchSize + HydrationBatchSize
    /\ \E j \in 1..Len(imageUids[1]) :
          /\ imageUids[1][j][1] \in host.failing
          /\ HasMarkers(host, imageUids[1][j][1])
    /\ Len(allImages[1]) > 1
    /\ Defined(localStorage.sort)

(***************************************************************************)
(* The current page stays within the pages of the list                     *)
(***************************************************************************)
\* p <= max(1, ceil(L / size)): page 1, or a page that starts inside the list
WithinPages(p, L, size) == p = 1 \/ (p - 1) * size < L

\* C29: every rendered grid is on a page p with 1 <= p <= max(1, ceil(L /
\* pageSize)), L the length of the list it was drawn from and pageSize the
\* page size it was drawn with, which for the gallery in the document is the
\* current IMAGES_PER_PAGE; the page of a non-empty list shows a record, and
\* the current page the dataset stores is the page drawn.
C29_PageWithinRange ==
    \A g \in 1..MaxGalleries :
        content[g].html = "grid" =>
            /\ content[g].page >= 1
            /\ content[g].perPage >= 1
            /\ WithinPages(content[g].page, Len(content[g].images),
                           content[g].perPage)
            /\ Len(content[g].images) > 0 => Len(PageImages(content[g])) > 0
            /\ content[g].dsCurrentPage = <<content[g].page>>
            /\ g = popup => content[g].perPage = IMAGES_PER_PAGE

\* the grid is on the last of several pages, where Next is unavailable, and
\* the list stored by a silent background update is longer than the one drawn
C29_Witness ==
    /\ GridShown
    /\ content[popup].page > 1
    /\ content[popup].page * content[popup].perPage >= Len(content[popup].images)
    /\ Len(Val(content[popup].dsAllImages)) > Len(content[popup].images)

(***************************************************************************)
(* The hydration loop terminates                                           *)
(***************************************************************************)
\* the background batches gallery g has still to hydrate
BatchesLeft(g) ==
    (Len(imageUids[g]) - processed[g] + HydrationBatchSize - 1)
        \div HydrationBatchSize

\* the host steps (returns of a block-query batch, firings of the timer)
\* between gallery g and the end of showImageGallery
StepsLeft(g) ==
    CASE pc[g] = "first" ->
             1 + 2 * ((Len(imageUids[g]) - Min(FirstBatchSize, Len(imageUids[g]))
                       + HydrationBatchSize - 1) \div HydrationBatchSize)
      [] pc[g] = "hydrate" -> 2 * BatchesLeft(g)
      [] pc[g] = "yield" -> 2 * BatchesLeft(g) + 1
      [] OTHER -> 0

Loading(g) == pc[g] \in {"first", "hydrate", "yield"}

\* C30: a gallery whose scan returned at least one identifier is hydrating,
\* awaiting a host query or the timer, or has finished; the number of host
\* steps it is from the end is bounded by the scan size, every return of a
\* query batch or of the timer lowers it by one and nothing raises it, so
\* the loop ends when the host has answered; it never throws; and a gallery
\* that is still in the document when the loop ends has no loading
\* indicator and an enabled search input, which stays enabled.
C30_HydrationTerminates ==
    /\ [](\A g \in 1..MaxGalleries : Len(imageUids[g]) >= 1 =>
             /\ Loading(g) \/ pc[g] = "done"
             /\ Loading(g) =>
                   /\ StepsLeft(g) >= 1
                   /\ StepsLeft(g) <= 1 + 2 * ((Len(imageUids[g])
                          + HydrationBatchSize - 1) \div HydrationBatchSize)
                   /\ processed[g] + Len(batch[g]) <= Len(imageUids[g])
                   /\ pc[g] # "yield" => batch[g] # <<>>
             /\ pc[g] = "done" =>
                   /\ processed[g] = Len(imageUids[g])
                   /\ ~loadingInfo[g]
                   /\ popup = g => ~searchInput[g].disabled)
    /\ [][\A g \in 1..MaxGalleries : Loading(g) =>
             /\ pc'[g] # pc[g] => StepsLeft(g)' = StepsLeft(g) - 1
             /\ pc'[g] = pc[g] => StepsLeft(g)' = StepsLeft(g)]_vars

\* the gallery of a scan of three batches has stayed open to the end of the
\* loop: the indicator it showed is removed and its search input is enabled
C30_Witness ==
    /\ popup = 1 /\ created = 1
    /\ Len(imageUids[1]) > FirstBatchSize + HydrationBatchSize
    /\ pc[1] = "done"
    /\ hydrateI[1] > HydrationBatchSize
    /\ ~loadingInfo[1]
    /\ ~searchInput[1].disabled

====
